---- MODULE Spec2Model ----
(***************************************************************************)
(* A model of the ChainX bridge and ledger core:                           *)
(*   - the multi-asset ledger          (xrml/xassets/assets)                *)
(*   - the Bitcoin header chain and transaction handler (xrml/xbridge)      *)
(*   - the legacy header chain with canonize/decanonize (cxrml/bridge/btc)  *)
(* Every subsystem has its own specification over the shared variables.    *)
(***************************************************************************)
EXTENDS Integers, Sequences, FiniteSets, TLC

(***************************************************************************)
(* Ledger: xrml/xassets/assets/src/lib.rs                                   *)
(***************************************************************************)

\* T::Balance is an unsigned machine integer; MaxBalance stands for its
\* largest value, so checked_add fails above it and checked_sub below 0.
MaxBalance == 2

Modulus == MaxBalance + 1

Accounts == {"a1", "a2"}

\* ChainT::TOKEN of the assets module: the native token.
PCX == "PCX"

\* A non-native token (the one the Bitcoin bridge issues).
XBTC == "BTC"

Tokens == {PCX, XBTC}

\* The tokens the ledger specification operates on.
LedgerTokens == {XBTC}

\* enum AssetType, in its derived Ord order (the BTreeMap iteration order);
\* the model keeps the type issue credits and the type destroy debits.
TypeOrder == <<"Free", "ReservedWithdrawal">>

AssetType == {TypeOrder[i] : i \in 1..Len(TypeOrder)}

Balances == 0..MaxBalance

VARIABLES
  AssetInfo,          \* map Token => Option<(Asset, bool, BlockNumber)>
  AssetBalance,       \* map (AccountId, Token) => BTreeMap<AssetType, Balance>
  TotalAssetBalance,  \* map Token => BTreeMap<AssetType, Balance>
  FreeBalance,        \* balances::FreeBalance, the native free balance
  TotalIssuance,      \* balances::TotalIssuance
  TokenBalances,      \* the storage of the legacy tokenbalances module
  ret                 \* the last call made and what it returned

ledgerVars ==
  <<AssetInfo, AssetBalance, TotalAssetBalance, FreeBalance, TotalIssuance, TokenBalances>>

\* The ledger storage as one value, so that an operation is a function of it.
Ledger ==
  [info |-> AssetInfo, bal |-> AssetBalance, total |-> TotalAssetBalance,
   free |-> FreeBalance, issuance |-> TotalIssuance]

Outcome(r, s) == [res |-> r, st |-> s]

asset_balance(s, who, token, type_) ==
  IF token = PCX /\ type_ = "Free"
  THEN s.free[who]
  ELSE s.bal[<<who, token>>][type_]

set_asset_balance(s, who, token, type_, val) ==
  IF token = PCX /\ type_ = "Free"
  THEN [s EXCEPT !.free[who] = val]
  ELSE [s EXCEPT !.bal[<<who, token>>][type_] = val]

set_free_balance_creating(s, who, token, value) ==
  IF token = PCX
  THEN [s EXCEPT !.free[who] = value]
  ELSE set_asset_balance(s, who, token, "Free", value)

RECURSIVE SumTypes(_, _)
SumTypes(m, ts) ==
  IF ts = {} THEN 0
  ELSE LET t == CHOOSE x \in ts : TRUE IN m[t] + SumTypes(m, ts \ {t})

\* For the native token the Free total is derived, with the unchecked
\* subtraction of the machine integer.
total_asset_balance(s, token, type_) ==
  IF token = PCX /\ type_ = "Free"
  THEN (s.issuance - SumTypes(s.total[token], AssetType \ {"Free"})) % Modulus
  ELSE s.total[token][type_]

set_total_asset_balance(s, token, type_, value) ==
  IF token = PCX /\ type_ = "Free"
  THEN s
  ELSE [s EXCEPT !.total[token][type_] = value]

is_valid_asset(s, token) == s.info[token] = "valid"

init_asset_balance(s, token, free) == set_total_asset_balance(s, token, "Free", free)

add_asset(s, token, free) ==
  IF s.info[token] # "none"
  THEN Outcome("already has this token", s)
  ELSE Outcome("Ok", init_asset_balance([s EXCEPT !.info[token] = "valid"], token, free))

remove_asset(s, token) ==
  IF s.info[token] # "none"
  THEN Outcome("Ok", [s EXCEPT !.info[token] = "revoked"])
  ELSE Outcome("this token dose not register yet or is invalid", s)

revoke_asset(s, token) == remove_asset(s, token)

register_asset(s, token, is_online, free) ==
  LET a == add_asset(s, token, free) IN
  IF a.res # "Ok" THEN a
  ELSE IF ~is_online THEN Outcome("Ok", revoke_asset(a.st, token).st)
  ELSE a

\* hook_ok is the result of T::OnAssetChanged::on_issue, which the tokens
\* module implements with a fallible issue_reward for non-native tokens.
issue(s, token, who, value, hook_ok) ==
  IF token = PCX THEN
    IF asset_balance(s, who, PCX, "Free") + value > MaxBalance
    THEN Outcome("free balance too high to issue", s)
    ELSE LET s1 == set_free_balance_creating(s, who, PCX, asset_balance(s, who, PCX, "Free") + value)
         IN Outcome("Ok", [s1 EXCEPT !.issuance = (@ + value) % Modulus])
  ELSE IF ~is_valid_asset(s, token) THEN Outcome("not a valid token", s)
  ELSE
    LET total_free_token == total_asset_balance(s, token, "Free")
        free_token == asset_balance(s, who, token, "Free")
    IN IF free_token + value > MaxBalance THEN Outcome("free balance too high to issue", s)
       ELSE IF total_free_token + value > MaxBalance
       THEN Outcome("total free balance too high to issue", s)
       ELSE LET s1 == set_total_asset_balance(s, token, "Free", total_free_token + value)
                s2 == set_free_balance_creating(s1, who, token, free_token + value)
            IN IF hook_ok THEN Outcome("Ok", s2) ELSE Outcome("on_issue failed", s2)

\* destroy that debits the total and leaves the account's balance.
destroy_total_only(s, token, who, value) ==
  IF token = PCX THEN Outcome("should not use chainx token here", s)
  ELSE IF ~is_valid_asset(s, token) THEN Outcome("not a valid token", s)
  ELSE
    LET type_ == "ReservedWithdrawal"
        total_reserved_token == total_asset_balance(s, token, type_)
        reserved_token == asset_balance(s, who, token, type_)
    IN IF reserved_token < value THEN Outcome("reserved balance too low to destroy", s)
       ELSE IF total_reserved_token < value
       THEN Outcome("total reserved balance too low to destroy", s)
       ELSE Outcome("Ok", set_total_asset_balance(s, token, type_, total_reserved_token - value))

destroy(s, token, who, value) ==
  IF token = PCX THEN Outcome("should not use chainx token here", s)
  ELSE IF ~is_valid_asset(s, token) THEN Outcome("not a valid token", s)
  ELSE
    LET type_ == "ReservedWithdrawal"
        total_reserved_token == total_asset_balance(s, token, type_)
        reserved_token == asset_balance(s, who, token, type_)
    IN IF reserved_token < value THEN Outcome("reserved balance too low to destroy", s)
       ELSE IF total_reserved_token < value
       THEN Outcome("total reserved balance too low to destroy", s)
       ELSE LET s1 == set_total_asset_balance(s, token, type_, total_reserved_token - value)
            IN Outcome("Ok", set_asset_balance(s1, who, token, type_, reserved_token - value))

\* A slip the all-or-nothing claim must detect: the per-account side is
\* written before the per-type totals are checked.
move_balance_account_first(s, token, from, from_type, to, to_type, value, check) ==
  IF from = to /\ from_type = to_type THEN Outcome("Ok", s)
  ELSE IF value = 0 THEN Outcome("Ok", s)
  ELSE IF check /\ ~is_valid_asset(s, token) THEN Outcome("InvalidToken", s)
  ELSE
    LET from_balance == asset_balance(s, from, token, from_type)
        to_balance == asset_balance(s, to, token, to_type)
    IN IF from_balance < value THEN Outcome("NotEnough", s)
       ELSE IF to_balance + value > MaxBalance THEN Outcome("OverFlow", s)
       ELSE
         LET s1 == set_asset_balance(s, from, token, from_type, from_balance - value)
             s2 == IF to_type = "Free"
                   THEN set_free_balance_creating(s1, to, token, to_balance + value)
                   ELSE set_asset_balance(s1, to, token, to_type, to_balance + value)
             total_from_balance == total_asset_balance(s, token, from_type)
             total_to_balance == total_asset_balance(s, token, to_type)
         IN IF from_type = to_type THEN Outcome("Ok", s2)
            ELSE IF total_from_balance < value THEN Outcome("TotalAssetNotEnough", s2)
            ELSE IF total_to_balance + value > MaxBalance THEN Outcome("TotalAssetOverFlow", s2)
            ELSE Outcome("Ok",
                   set_total_asset_balance(
                     set_total_asset_balance(s2, token, from_type, total_from_balance - value),
                     token, to_type, total_to_balance + value))

\* move_balance_with_checkflag that validates the token before anything else.
move_balance_validity_first(s, token, from, from_type, to, to_type, value, check) ==
  IF check /\ ~is_valid_asset(s, token) THEN Outcome("InvalidToken", s)
  ELSE IF from = to /\ from_type = to_type THEN Outcome("Ok", s)
  ELSE IF value = 0 THEN Outcome("Ok", s)
  ELSE
    LET from_balance == asset_balance(s, from, token, from_type)
        to_balance == asset_balance(s, to, token, to_type)
    IN IF from_balance < value THEN Outcome("NotEnough", s)
       ELSE IF to_balance + value > MaxBalance THEN Outcome("OverFlow", s)
       ELSE
         LET total_from_balance == total_asset_balance(s, token, from_type)
             total_to_balance == total_asset_balance(s, token, to_type)
             totalErr ==
               IF from_type = to_type THEN "Ok"
               ELSE IF total_from_balance < value THEN "TotalAssetNotEnough"
               ELSE IF total_to_balance + value > MaxBalance THEN "TotalAssetOverFlow"
               ELSE "Ok"
             s1 == IF from_type # to_type
                   THEN set_total_asset_balance(
                          set_total_asset_balance(s, token, from_type, total_from_balance - value),
                          token, to_type, total_to_balance + value)
                   ELSE s
             s2 == set_asset_balance(s1, from, token, from_type, from_balance - value)
             s3 == IF to_type = "Free"
                   THEN set_free_balance_creating(s2, to, token, to_balance + value)
                   ELSE set_asset_balance(s2, to, token, to_type, to_balance + value)
         IN IF totalErr # "Ok" THEN Outcome(totalErr, s) ELSE Outcome("Ok", s3)

\* on_move of both implementations of OnAssetChanged returns Ok(()).
move_balance_with_checkflag(s, token, from, from_type, to, to_type, value, check) ==
  IF from = to /\ from_type = to_type THEN Outcome("Ok", s)
  ELSE IF value = 0 THEN Outcome("Ok", s)
  ELSE IF check /\ ~is_valid_asset(s, token) THEN Outcome("InvalidToken", s)
  ELSE
    LET from_balance == asset_balance(s, from, token, from_type)
        to_balance == asset_balance(s, to, token, to_type)
    IN IF from_balance < value THEN Outcome("NotEnough", s)
       ELSE IF to_balance + value > MaxBalance THEN Outcome("OverFlow", s)
       ELSE
         LET new_from_balance == from_balance - value
             new_to_balance == to_balance + value
             total_from_balance == total_asset_balance(s, token, from_type)
             total_to_balance == total_asset_balance(s, token, to_type)
             totalErr ==
               IF from_type = to_type THEN "Ok"
               ELSE IF total_from_balance < value THEN "TotalAssetNotEnough"
               ELSE IF total_to_balance + value > MaxBalance THEN "TotalAssetOverFlow"
               ELSE "Ok"
             s1 == IF from_type # to_type
                   THEN set_total_asset_balance(
                          set_total_asset_balance(s, token, from_type, total_from_balance - value),
                          token, to_type, total_to_balance + value)
                   ELSE s
             s2 == set_asset_balance(s1, from, token, from_type, new_from_balance)
             s3 == IF to_type = "Free"
                   THEN set_free_balance_creating(s2, to, token, new_to_balance)
                   ELSE set_asset_balance(s2, to, token, to_type, new_to_balance)
         IN IF totalErr # "Ok" THEN Outcome(totalErr, s) ELSE Outcome("Ok", s3)

\* AssetTriggerEventAfter::on_move deposits RawEvent::Move; the call reaches
\* it only past both early returns and every check.
move_deposits_event(s, token, from, from_type, to, to_type, value, check) ==
  /\ ~(from = to /\ from_type = to_type)
  /\ value # 0
  /\ move_balance_with_checkflag(s, token, from, from_type, to, to_type, value, check).res = "Ok"

move_balance(s, token, from, from_type, to, to_type, value) ==
  move_balance_with_checkflag(s, token, from, from_type, to, to_type, value, TRUE)

\* One iteration of the loop of set_balance_by_root.
set_balance_step(s, who, token, type_, val) ==
  LET old_val == asset_balance(s, who, token, type_)
      old_total_val == total_asset_balance(s, token, type_)
  IN IF old_val = val THEN Outcome("Ok", s)
     ELSE IF val > old_val /\ old_total_val + (val - old_val) > MaxBalance
     THEN Outcome("old total balance too high to add value", s)
     ELSE IF val < old_val /\ old_total_val < old_val - val
     THEN Outcome("old total balance too low to sub value", s)
     ELSE
       LET new_total_val == IF val > old_val THEN old_total_val + (val - old_val)
                            ELSE old_total_val - (old_val - val)
           s1 == set_asset_balance(s, who, token, type_, val)
       IN Outcome("Ok",
            IF token = PCX /\ type_ = "Free"
            THEN [s1 EXCEPT !.issuance = new_total_val]
            ELSE set_total_asset_balance(s1, token, type_, new_total_val))

\* balances is a BTreeMap: a function from some asset types to values,
\* visited in the order of the types.
RECURSIVE set_balance_from(_, _, _, _, _)
set_balance_from(s, who, token, balances, i) ==
  IF i > Len(TypeOrder) THEN Outcome("Ok", s)
  ELSE IF TypeOrder[i] \notin DOMAIN balances
  THEN set_balance_from(s, who, token, balances, i + 1)
  ELSE LET r == set_balance_step(s, who, token, TypeOrder[i], balances[TypeOrder[i]])
       IN IF r.res # "Ok" THEN r
          ELSE set_balance_from(r.st, who, token, balances, i + 1)

set_balance_by_root(s, who, token, balances) == set_balance_from(s, who, token, balances, 1)

\* The BTreeMaps a root call can pass.
BalanceMaps == UNION {[ts -> Balances] : ts \in SUBSET AssetType}

(***************************************************************************)
(* Legacy token ledger: cxrml/tokenbalances/src/lib.rs                      *)
(***************************************************************************)

\* T::CHAINX_SYMBOL, the native symbol, and a token registered by root.
CHAINX_SYMBOL == "pcx"

EOS == "x-eos"

\* The symbols the legacy ledger is called with. The branches of reserve,
\* unreserve and move_free_token for the native symbol work on the balances
\* module and are not entered for these.
LegacySymbols == {EOS}

\* The variable TokenBalances holds the storage of the module as a record:
\*   info: TokenInfo, map Symbol => Option<(Token, bool)>
\*   total_free: TotalFreeToken;  free: FreeToken
\*   total_reserved: TotalReservedToken;  reserved: ReservedToken
\*   list_of: TokenListOf, map AccountId => Vec<Symbol>

\* The storage as decl_storage leaves it: TokenListOf defaults to the
\* native symbol alone, every balance to 0.
EmptyTokenBalances ==
  [info |-> [sym \in LegacySymbols |-> "none"],
   total_free |-> [sym \in LegacySymbols |-> 0],
   free |-> [k \in Accounts \X LegacySymbols |-> 0],
   total_reserved |-> [sym \in LegacySymbols |-> 0],
   reserved |-> [k \in Accounts \X LegacySymbols |-> 0],
   list_of |-> [who \in Accounts |-> <<CHAINX_SYMBOL>>]]

is_valid_token(s, symbol) ==
  IF s.info[symbol] = "valid" THEN "Ok"
  ELSE IF s.info[symbol] = "none" THEN "not a registered token"
  ELSE "not a valid token"

is_valid_token_for(s, who, symbol) ==
  IF is_valid_token(s, symbol) # "Ok" THEN is_valid_token(s, symbol)
  ELSE IF \E i \in 1..Len(s.list_of[who]) : s.list_of[who][i] = symbol THEN "Ok"
  ELSE "not a existed token in this account token list"

init_token_for(s, who, symbol) ==
  IF is_valid_token_for(s, who, symbol) # "Ok"
  THEN [s EXCEPT !.list_of[who] = Append(@, symbol)]
  ELSE s

\* add_token with init_token_balance, then the TokenInfo entry.
register_token(s, symbol, free, reserved) ==
  IF s.info[symbol] # "none" THEN Outcome("already has this token symbol", s)
  ELSE Outcome("Ok", [s EXCEPT !.total_free[symbol] = free,
                               !.total_reserved[symbol] = reserved,
                               !.info[symbol] = "valid"])

\* cancel_token with remove_token.
cancel_token(s, symbol) ==
  IF s.info[symbol] # "none"
  THEN Outcome("Ok", [s EXCEPT !.info[symbol] = "cancelled"])
  ELSE Outcome("this token symbol dose not register yet or is invalid", s)

\* liquid is the answer of EnsureAccountLiquid::ensure_account_liquid.
issue_token(s, who, symbol, value, liquid) ==
  IF symbol = CHAINX_SYMBOL THEN Outcome("can't issue chainx token", s)
  ELSE IF is_valid_token(s, symbol) # "Ok" THEN Outcome(is_valid_token(s, symbol), s)
  ELSE IF ~liquid THEN Outcome("account locked", s)
  ELSE IF s.free[<<who, symbol>>] + value > MaxBalance
  THEN Outcome("free token too high to issue", s)
  ELSE IF s.total_free[symbol] + value > MaxBalance
  THEN Outcome("total free token too high to issue", s)
  ELSE Outcome("Ok", [init_token_for(s, who, symbol)
                        EXCEPT !.total_free[symbol] = @ + value,
                               !.free[<<who, symbol>>] = @ + value])

destroy_token(s, who, symbol, value, liquid) ==
  IF symbol = CHAINX_SYMBOL THEN Outcome("can't destroy chainx token", s)
  ELSE IF is_valid_token_for(s, who, symbol) # "Ok"
  THEN Outcome(is_valid_token_for(s, who, symbol), s)
  ELSE IF ~liquid THEN Outcome("account locked", s)
  ELSE IF s.reserved[<<who, symbol>>] < value
  THEN Outcome("reserved token too low to destroy", s)
  ELSE IF s.total_reserved[symbol] < value
  THEN Outcome("total reserved token too low to destroy", s)
  ELSE Outcome("Ok", [s EXCEPT !.total_reserved[symbol] = @ - value,
                               !.reserved[<<who, symbol>>] = @ - value])

reserve(s, who, symbol, value, liquid) ==
  IF is_valid_token_for(s, who, symbol) # "Ok"
  THEN Outcome(is_valid_token_for(s, who, symbol), s)
  ELSE IF ~liquid THEN Outcome("account locked", s)
  ELSE IF s.free[<<who, symbol>>] < value THEN Outcome("free token too low to reserve", s)
  ELSE IF s.reserved[<<who, symbol>>] + value > MaxBalance
  THEN Outcome("reserved token too high to reserve", s)
  ELSE IF s.total_free[symbol] < value THEN Outcome("total free token too low to reserve", s)
  ELSE IF s.total_reserved[symbol] + value > MaxBalance
  THEN Outcome("total reserved token too high to reserve", s)
  ELSE Outcome("Ok", [s EXCEPT !.total_free[symbol] = @ - value,
                               !.total_reserved[symbol] = @ + value,
                               !.free[<<who, symbol>>] = @ - value,
                               !.reserved[<<who, symbol>>] = @ + value])

unreserve(s, who, symbol, value, liquid) ==
  IF is_valid_token_for(s, who, symbol) # "Ok"
  THEN Outcome(is_valid_token_for(s, who, symbol), s)
  ELSE IF ~liquid THEN Outcome("account locked", s)
  ELSE IF s.free[<<who, symbol>>] + value > MaxBalance
  THEN Outcome("free token too high to unreserve", s)
  ELSE IF s.reserved[<<who, symbol>>] < value
  THEN Outcome("reserved token too low to unreserve", s)
  ELSE IF s.total_free[symbol] + value > MaxBalance
  THEN Outcome("total free token too high to unreserve", s)
  ELSE IF s.total_reserved[symbol] < value
  THEN Outcome("total reserved token too low to unreserve", s)
  ELSE Outcome("Ok", [s EXCEPT !.total_free[symbol] = @ + value,
                               !.total_reserved[symbol] = @ - value,
                               !.free[<<who, symbol>>] = @ + value,
                               !.reserved[<<who, symbol>>] = @ - value])

\* The two inserts in program order: with from = to the second one stands.
move_free_token(s, from, to, symbol, value, liquid) ==
  IF is_valid_token_for(s, from, symbol) # "Ok" THEN Outcome("InvalidToken", s)
  ELSE IF ~liquid THEN Outcome("InvalidAccount", s)
  ELSE LET s1 == init_token_for(s, to, symbol)
           from_token == s1.free[<<from, symbol>>]
           to_token == s1.free[<<to, symbol>>]
       IN IF from_token < value THEN Outcome("NotEnough", s1)
          ELSE IF to_token + value > MaxBalance THEN Outcome("OverFlow", s1)
          ELSE Outcome("Ok",
                 [[s1 EXCEPT !.free[<<from, symbol>>] = from_token - value]
                      EXCEPT !.free[<<to, symbol>>] = to_token + value])

\* fee_ok is the answer of cxsupport's handle_fee_after to the sender's fee.
transfer_token(s, transactor, dest, sym, value, fee_ok) ==
  IF sym = CHAINX_SYMBOL THEN Outcome("not allow to transfer chainx use transfer_token", s)
  ELSE IF is_valid_token_for(s, transactor, sym) # "Ok"
  THEN Outcome(is_valid_token_for(s, transactor, sym), s)
  ELSE LET s1 == init_token_for(s, dest, sym)
           from_token == s1.free[<<transactor, sym>>]
           to_token == s1.free[<<dest, sym>>]
       IN IF ~fee_ok THEN Outcome("fee", s1)
          ELSE IF from_token < value THEN Outcome("free token too low to send value", s1)
          ELSE IF to_token + value > MaxBalance
          THEN Outcome("destination free token too high to receive value", s1)
          ELSE IF transactor # dest
          THEN Outcome("Ok",
                 [s1 EXCEPT !.free[<<transactor, sym>>] = from_token - value,
                            !.free[<<dest, sym>>] = to_token + value])
          ELSE Outcome("Ok", s1)

(***************************************************************************)
(* Option values: None is the empty sequence, Some(x) the one-element one.  *)
(***************************************************************************)
None == <<>>

Some(x) == <<x>>

(***************************************************************************)
(* UTXO tracker: cxrml/bridge/btc/src/tx/mod.rs                             *)
(* Withdrawal proposal builder: xrml/xbridge/bitcoin/src/tx/proposal.rs     *)
(***************************************************************************)

\* The largest number of entries the model lets the UTXO set grow to.
MaxUTXO == 2

\* The txid of the deposit that creates the i-th tracked UTXO.
UtxoTxid(i) == <<"utxo", i>>

UTXOValues == {1, 2}

Fees == {0, 1, 2}

VARIABLES
  UTXOSet,          \* map u64 => UTXO with UTXOMaxIndex, as a sequence
  TxProposal,       \* Option<CandidateTx>
  ApplicationMap,   \* xrecords: map u32 => Option<Application>
  TrusteeAddress    \* Option<Address>

proposalVars == <<UTXOSet, TxProposal, ApplicationMap, TrusteeAddress>>

\* The bridge storage create_proposal reads and writes, as one value.
Bridge ==
  [utxo |-> UTXOSet, proposal |-> TxProposal, app |-> ApplicationMap,
   trustee |-> TrusteeAddress]

\* The while loop of select_utxo, from position index down to the first.
RECURSIVE select_from(_, _, _, _, _)
select_from(set, index, count_balance, utxo_set, balance) ==
  IF index = 0 THEN None
  ELSE LET utxo == set[index]
       IN IF ~utxo.is_spent
          THEN IF count_balance + utxo.balance >= balance
               THEN Some(Append(utxo_set, utxo))
               ELSE select_from(set, index - 1, count_balance + utxo.balance,
                                Append(utxo_set, utxo), balance)
          ELSE select_from(set, index - 1, count_balance, utxo_set, balance)

select_utxo(set, balance) == select_from(set, Len(set), 0, <<>>, balance)

\* UTXOStorage::add
add(set, new_utxos) == set \o new_utxos

\* The position a downward scan stops at: the largest of hits, 0 if none.
LastIndex(hits) ==
  IF hits = {} THEN 0 ELSE CHOOSE i \in hits : \A j \in hits : j <= i

RECURSIVE update_from(_, _, _, _)
update_from(set, utxos, is_spent, k) ==
  IF k > Len(utxos) THEN set
  ELSE LET i == LastIndex({j \in 1..Len(set) : set[j] = utxos[k]})
           next == IF i = 0 THEN set ELSE [set EXCEPT ![i].is_spent = is_spent]
       IN update_from(next, utxos, is_spent, k + 1)

\* UTXOStorage::update: the entry must equal the given UTXO in every field.
update(set, utxos, is_spent) == update_from(set, utxos, is_spent, 1)

RECURSIVE update_outpoints_from(_, _, _, _)
update_outpoints_from(set, out_point_set, is_spent, k) ==
  IF k > Len(out_point_set) THEN set
  ELSE LET i == LastIndex({j \in 1..Len(set) :
                              /\ out_point_set[k].hash = set[j].txid
                              /\ out_point_set[k].index = set[j].index})
           next == IF i = 0 THEN set ELSE [set EXCEPT ![i].is_spent = is_spent]
       IN update_outpoints_from(next, out_point_set, is_spent, k + 1)

\* update_from_outpoint that writes the flag of every entry.
update_from_outpoint_every_entry(set, out_point_set, is_spent) ==
  IF out_point_set = <<>> THEN set
  ELSE [j \in 1..Len(set) |-> [set[j] EXCEPT !.is_spent = is_spent]]

update_from_outpoint(set, out_point_set, is_spent) ==
  update_outpoints_from(set, out_point_set, is_spent, 1)

RECURSIVE SumBalance(_)
SumBalance(utxos) ==
  IF utxos = <<>> THEN 0 ELSE utxos[1].balance + SumBalance(Tail(utxos))

\* The loop of create_proposal counting only the applications it pays.
RECURSIVE collect_records_paid_only(_, _, _, _)
collect_records_paid_only(app, indexs, fee, acc) ==
  IF indexs = <<>> THEN acc
  ELSE LET index == indexs[1]
       IN IF app[index] = None THEN [acc EXCEPT !.err = "not get record for this key"]
          ELSE LET r == app[index][1]
               IN IF ~r.addr_ok THEN [acc EXCEPT !.err = "parse addr error"]
                  ELSE collect_records_paid_only(app, Tail(indexs), fee,
                         IF r.balance > fee
                         THEN [err |-> "Ok",
                               outputs |-> Append(acc.outputs,
                                                  [value |-> r.balance - fee, to |-> r.addr]),
                               outs |-> Append(acc.outs, index),
                               out_balance |-> acc.out_balance + r.balance]
                         ELSE acc)

\* The loop of create_proposal over the withdrawal record ids: the outputs,
\* the ids and the total collected so far, or the error that ends it.
RECURSIVE collect_records(_, _, _, _)
collect_records(app, indexs, fee, acc) ==
  IF indexs = <<>> THEN acc
  ELSE LET index == indexs[1]
       IN IF app[index] = None THEN [acc EXCEPT !.err = "not get record for this key"]
          ELSE LET r == app[index][1]
               IN IF ~r.addr_ok THEN [acc EXCEPT !.err = "parse addr error"]
                  ELSE collect_records(app, Tail(indexs), fee,
                         [err |-> "Ok",
                          outputs |-> IF r.balance > fee
                                      THEN Append(acc.outputs,
                                                  [value |-> r.balance - fee, to |-> r.addr])
                                      ELSE acc.outputs,
                          outs |-> Append(acc.outs, index),
                          out_balance |-> acc.out_balance + r.balance])

OutPointOf(utxo) == [hash |-> utxo.txid, index |-> utxo.index]

\* create_proposal that stores the transaction built so far before it looks
\* for the trustee address of the change output.
create_proposal_put_first(s, withdrawal_record_indexs, fee) ==
  LET c == collect_records(s.app, withdrawal_record_indexs, fee,
                           [err |-> "Ok", outputs |-> <<>>, outs |-> <<>>, out_balance |-> 0])
      sel == select_utxo(s.utxo, c.out_balance)
  IN IF c.err # "Ok" THEN Outcome(c.err, s)
     ELSE IF sel = None THEN Outcome("lack of balance", s)
     ELSE LET utxo_set == sel[1]
              ins_balance == SumBalance(utxo_set)
              inputs == [i \in 1..Len(utxo_set) |-> OutPointOf(utxo_set[i])]
              change == ins_balance > c.out_balance + fee
              put == [s EXCEPT !.proposal =
                        Some([tx |-> [inputs |-> inputs, outputs |-> c.outputs],
                              outs |-> c.outs])]
          IN IF change /\ s.trustee = None
             THEN Outcome("should set trustee_address first", put)
             ELSE LET outputs == IF change
                                 THEN Append(c.outputs,
                                        [value |-> ins_balance - c.out_balance - fee,
                                         to |-> s.trustee[1]])
                                 ELSE c.outputs
                  IN Outcome("Ok", [s EXCEPT !.proposal =
                                      Some([tx |-> [inputs |-> inputs, outputs |-> outputs],
                                            outs |-> c.outs])])

\* create_proposal whose change output keeps the fee.
create_proposal_change_with_fee(s, withdrawal_record_indexs, fee) ==
  LET c == collect_records(s.app, withdrawal_record_indexs, fee,
                           [err |-> "Ok", outputs |-> <<>>, outs |-> <<>>, out_balance |-> 0])
      sel == select_utxo(s.utxo, c.out_balance)
  IN IF c.err # "Ok" THEN Outcome(c.err, s)
     ELSE IF sel = None THEN Outcome("lack of balance", s)
     ELSE LET utxo_set == sel[1]
              ins_balance == SumBalance(utxo_set)
              inputs == [i \in 1..Len(utxo_set) |-> OutPointOf(utxo_set[i])]
              change == ins_balance > c.out_balance
          IN IF change /\ s.trustee = None
             THEN Outcome("should set trustee_address first", s)
             ELSE LET outputs == IF change
                                 THEN Append(c.outputs,
                                        [value |-> ins_balance - c.out_balance,
                                         to |-> s.trustee[1]])
                                 ELSE c.outputs
                  IN Outcome("Ok", [s EXCEPT !.proposal =
                                      Some([tx |-> [inputs |-> inputs, outputs |-> outputs],
                                            outs |-> c.outs])])

create_proposal(s, withdrawal_record_indexs, fee) ==
  LET c == collect_records(s.app, withdrawal_record_indexs, fee,
                           [err |-> "Ok", outputs |-> <<>>, outs |-> <<>>, out_balance |-> 0])
      sel == select_utxo(s.utxo, c.out_balance)
  IN IF c.err # "Ok" THEN Outcome(c.err, s)
     ELSE IF sel = None THEN Outcome("lack of balance", s)
     ELSE LET utxo_set == sel[1]
              ins_balance == SumBalance(utxo_set)
              inputs == [i \in 1..Len(utxo_set) |-> OutPointOf(utxo_set[i])]
              change == ins_balance > c.out_balance + fee
          IN IF change /\ s.trustee = None
             THEN Outcome("should set trustee_address first", s)
             ELSE LET outputs == IF change
                                 THEN Append(c.outputs,
                                        [value |-> ins_balance - c.out_balance - fee,
                                         to |-> s.trustee[1]])
                                 ELSE c.outputs
                  IN Outcome("Ok", [s EXCEPT !.proposal =
                                      Some([tx |-> [inputs |-> inputs, outputs |-> outputs],
                                            outs |-> c.outs])])

(***************************************************************************)
(* Header chain: xrml/xbridge/bitcoin/src/header/mod.rs                     *)
(* Transaction handler: xrml/xbridge/bitcoin/src/tx/handler.rs             *)
(***************************************************************************)

\* Module::confirmation_number() and Module::reserved_block(), as configured.
Confirmations == 2

ReservedBlock == 3

\* The relayed headers: a branch "a" on top of the genesis header <<"a", 0>>,
\* a branch "b" that leaves it after <<"a", ForkAt>> and grows to ChainLen
\* headers above the genesis header, one more than "a", and a header whose
\* parent was never relayed.
ChainLen == 5

ForkAt == 0

ZeroHash == <<"z", 0>>

GenesisHash == <<"a", 0>>

Headers ==
  {<<"a", i>> : i \in 1..(ChainLen - 1)} \cup {<<"b", i>> : i \in (ForkAt + 1)..ChainLen}
    \cup {<<"o", 1>>}

HashSpace == Headers \cup {GenesisHash, ZeroHash, <<"u", 0>>}

\* BlockHeader.previous_header_hash of the header with the given hash.
PrevHash(h) ==
  CASE h = GenesisHash -> ZeroHash
    [] h[1] = "a" -> <<"a", h[2] - 1>>
    [] h[1] = "b" -> IF h[2] = ForkAt + 1 THEN <<"a", ForkAt>> ELSE <<"b", h[2] - 1>>
    [] OTHER -> <<"u", 0>>

BlockHeader(h) == [hash |-> h, previous_header_hash |-> PrevHash(h)]

\* The heights the stored headers can have.
Heights == 0..(Confirmations + 1 + ChainLen)

\* Heights are u32; the model keeps 16 bits of them, more than any height
\* it reaches, so that an underflow wraps to a value above every height.
U32 == 65536

VARIABLES
  BlockHeaderFor,             \* map H256 => Option<BlockHeaderInfo>
  BlockHashFor,               \* map u32 => Vec<H256>
  BestIndex,                  \* H256
  TxFor,                      \* map H256 => Option<TxInfo>
  InputAddrFor,               \* map H256 => Option<Address>
  PendingDepositMap,          \* map Address => Option<Vec<DepositCache>>
  CurrentWithdrawalProposal,  \* Option<WithdrawalProposal>
  Switch,                     \* xfee_manager::Switch, its xbtc flag
  AddressMap,                 \* xaccounts: map address => Option<AccountId>
  Records,                    \* xrecords: the deposits and finished withdrawals
  handled                     \* the handle_tx calls of the last operation

headerVars ==
  <<BlockHeaderFor, BlockHashFor, BestIndex, TxFor, InputAddrFor, PendingDepositMap,
    CurrentWithdrawalProposal, Switch, AddressMap, Records, handled>>

\* The storage of the bridge module and its collaborators, as one value.
XBridge ==
  [hdr |-> BlockHeaderFor, hashfor |-> BlockHashFor, best |-> BestIndex, tx |-> TxFor,
   inaddr |-> InputAddrFor, pending |-> PendingDepositMap,
   proposal |-> CurrentWithdrawalProposal, switch |-> Switch, binding |-> AddressMap,
   records |-> Records, handled |-> handled]

\* a - b on u32: a build with overflow checks panics on underflow, one
\* without wraps around.
sub_u32(a, b) == IF a >= b THEN a - b ELSE a - b + U32

check_prev_and_convert(s, header, overflow_checks) ==
  LET prev_info == s.hdr[header.previous_header_hash]
      best_info == s.hdr[s.best]
  IN IF prev_info = None THEN [err |-> "UnknownParent"]
     ELSE IF best_info = None THEN [err |-> "NotFound"]
     ELSE LET best_height == best_info[1].height
              this_height == prev_info[1].height + 1
          IN IF best_height < Confirmations /\ overflow_checks THEN [err |-> "panic"]
             ELSE IF this_height < sub_u32(best_height, Confirmations)
             THEN [err |-> "AncientFork"]
             ELSE [err |-> "Ok",
                   info |-> [header |-> header, height |-> this_height,
                             confirmed |-> FALSE, txid_list |-> <<>>]]

Range(seq) == {seq[i] : i \in 1..Len(seq)}

\* tx::remove_unused_tx for every txid of the set.
remove_unused_tx(s, txids) ==
  [s EXCEPT !.tx = [t \in DOMAIN s.tx |-> IF t \in txids THEN None ELSE s.tx[t]],
            !.inaddr = [t \in DOMAIN s.inaddr |-> IF t \in txids THEN None ELSE s.inaddr[t]]]

\* remove_unused_headers that deletes one height too high.
remove_unused_headers_one_higher(s, header_info) ==
  IF header_info.height > ReservedBlock
  THEN LET del == header_info.height - ReservedBlock + 1
           v == Range(s.hashfor[del])
           txids == UNION {Range(s.hdr[h][1].txid_list) : h \in {x \in v : s.hdr[x] # None}}
           s1 == remove_unused_tx(s, txids)
       IN [s1 EXCEPT !.hdr = [h \in DOMAIN s.hdr |-> IF h \in v THEN None ELSE s.hdr[h]],
                     !.hashfor[del] = <<>>]
  ELSE s

remove_unused_headers(s, header_info) ==
  IF header_info.height > ReservedBlock
  THEN LET del == header_info.height - ReservedBlock
           v == Range(s.hashfor[del])
           txids == UNION {Range(s.hdr[h][1].txid_list) : h \in {x \in v : s.hdr[x] # None}}
           s1 == remove_unused_tx(s, txids)
       IN [s1 EXCEPT !.hdr = [h \in DOMAIN s.hdr |-> IF h \in v THEN None ELSE s.hdr[h]],
                     !.hashfor[del] = <<>>]
  ELSE s

\* The relayed Bitcoin transactions: what the parsers of the bridge extract
\* from each raw transaction, and the blocks whose merkle tree holds it.
\*   d1: a deposit of 1 from addr1 without OP_RETURN
\*   d2: a deposit of 1 from addr1 whose OP_RETURN binds addr1 to a1
\*   w1: a trustee spend equal to the proposal p1;  w2: one that is not
Transactions ==
  [d1 |-> [tx_type |-> "Deposit", input_addr |-> "addr1", deposit_balance |-> 1,
           account_info |-> None, unsigned |-> "d1",
           blocks |-> {<<"a", 1>>, <<"b", 3>>}],
   d2 |-> [tx_type |-> "Deposit", input_addr |-> "addr1", deposit_balance |-> 1,
           account_info |-> Some("a1"), unsigned |-> "d2",
           blocks |-> {<<"a", 2>>}],
   w1 |-> [tx_type |-> "Withdrawal", input_addr |-> "trustee", deposit_balance |-> 0,
           account_info |-> None, unsigned |-> "p1",
           blocks |-> {<<"a", 1>>, <<"b", 3>>}],
   w2 |-> [tx_type |-> "Withdrawal", input_addr |-> "trustee", deposit_balance |-> 0,
           account_info |-> None, unsigned |-> "p2",
           blocks |-> {<<"b", 1>>}]]

TxIds == DOMAIN Transactions

Addresses == {"addr1", "trustee"}

\* deposit_token: xrecords::deposit for the account; the record keeps, for
\* every transaction, how often its amount was handed to xrecords.
deposit_token(s, who, balance, txid) ==
  [s EXCEPT !.records.credited[txid] = @ + 1,
            !.records.balance[who] = @ + balance]

\* insert_pending_deposit without the contains test.
insert_pending_deposit_pushing(s, input_address, txid, balance) ==
  LET cache == [txid |-> txid, balance |-> balance]
      old == s.pending[input_address]
  IN IF old # None
     THEN [s EXCEPT !.pending[input_address] = Some(Append(old[1], cache))]
     ELSE [s EXCEPT !.pending[input_address] = Some(<<cache>>)]

insert_pending_deposit(s, input_address, txid, balance) ==
  LET cache == [txid |-> txid, balance |-> balance]
      old == s.pending[input_address]
  IN IF old # None
     THEN [s EXCEPT !.pending[input_address] =
             Some(IF cache \in Range(old[1]) THEN old[1] ELSE Append(old[1], cache))]
     ELSE [s EXCEPT !.pending[input_address] = Some(<<cache>>)]

RECURSIVE redeposit(_, _, _)
redeposit(s, who, record) ==
  IF record = <<>> THEN s
  ELSE redeposit(deposit_token(s, who, record[1].balance, record[1].txid), who, Tail(record))

\* remove_pending_deposit that credits the record and leaves it in the map.
remove_pending_deposit_keeping(s, input_address, who) ==
  IF s.pending[input_address] # None
  THEN redeposit(s, who, s.pending[input_address][1])
  ELSE s

remove_pending_deposit(s, input_address, who) ==
  IF s.pending[input_address] # None
  THEN [redeposit(s, who, s.pending[input_address][1]) EXCEPT !.pending[input_address] = None]
  ELSE s

\* TxHandler::deposit
deposit(s, tx_hash) ==
  IF s.inaddr[tx_hash] = None THEN Outcome("panic", s)
  ELSE
    LET input_addr == s.inaddr[tx_hash][1]
        raw_tx == Transactions[s.tx[tx_hash][1].raw_tx]
        account_info == raw_tx.account_info
        deposit_balance == raw_tx.deposit_balance
        s1 == IF account_info # None
              THEN [remove_pending_deposit(s, input_addr, account_info[1])
                      EXCEPT !.binding[input_addr] = account_info]
              ELSE s
        deposit_account_info == IF account_info # None THEN account_info
                                ELSE s.binding[input_addr]
    IN IF deposit_account_info # None
       THEN Outcome("Ok", IF deposit_balance > 0
                          THEN deposit_token(s1, deposit_account_info[1], deposit_balance, tx_hash)
                          ELSE s1)
       ELSE Outcome("Ok", IF deposit_balance > 0
                          THEN insert_pending_deposit(s1, input_addr, tx_hash, deposit_balance)
                          ELSE s1)

\* utils::ensure_identical: the two transactions agree in everything but
\* their signature data.
ensure_identical(raw_tx, proposal_tx) == Transactions[raw_tx].unsigned = proposal_tx

\* TxHandler::withdraw finishing the applications with the proposal left in
\* its slot.
withdraw_keeping_proposal(s, tx_hash) ==
  IF s.proposal # None
  THEN LET proposal == s.proposal[1]
       IN IF ensure_identical(s.tx[tx_hash][1].raw_tx, proposal.tx)
          THEN Outcome("Ok",
                 [s EXCEPT !.records.finished = @ \cup Range(proposal.withdrawal_id_list)])
          ELSE Outcome("not identical",
                 [s EXCEPT !.records.fatal = @ \cup {tx_hash}, !.switch = TRUE])
  ELSE Outcome("Ok", [s EXCEPT !.records.fatal = @ \cup {tx_hash}, !.switch = TRUE])

\* TxHandler::withdraw that does not put a proposal it took back.
withdraw_taking_proposal(s, tx_hash) ==
  IF s.proposal # None
  THEN LET proposal == s.proposal[1]
       IN IF ensure_identical(s.tx[tx_hash][1].raw_tx, proposal.tx)
          THEN Outcome("Ok",
                 [s EXCEPT !.proposal = None,
                           !.records.finished = @ \cup Range(proposal.withdrawal_id_list)])
          ELSE Outcome("not identical",
                 [s EXCEPT !.proposal = None,
                           !.records.fatal = @ \cup {tx_hash}, !.switch = TRUE])
  ELSE Outcome("Ok", [s EXCEPT !.records.fatal = @ \cup {tx_hash}, !.switch = TRUE])

\* withdraw reopening withdrawals once a transaction matches the proposal.
withdraw_reopening(s, tx_hash) ==
  IF s.proposal # None
  THEN LET proposal == s.proposal[1]
       IN IF ensure_identical(s.tx[tx_hash][1].raw_tx, proposal.tx)
          THEN Outcome("Ok",
                 [s EXCEPT !.proposal = None,
                           !.switch = FALSE,
                           !.records.finished = @ \cup Range(proposal.withdrawal_id_list)])
          ELSE Outcome("not identical",
                 [s EXCEPT !.records.fatal = @ \cup {tx_hash}, !.switch = TRUE])
  ELSE Outcome("Ok", [s EXCEPT !.records.fatal = @ \cup {tx_hash}, !.switch = TRUE])

\* withdraw handling an unsolicited transaction without touching the switch.
withdraw_unlatched(s, tx_hash) ==
  IF s.proposal # None
  THEN LET proposal == s.proposal[1]
       IN IF ensure_identical(s.tx[tx_hash][1].raw_tx, proposal.tx)
          THEN Outcome("Ok",
                 [s EXCEPT !.proposal = None,
                           !.records.finished = @ \cup Range(proposal.withdrawal_id_list)])
          ELSE Outcome("not identical",
                 [s EXCEPT !.records.fatal = @ \cup {tx_hash}, !.switch = TRUE])
  ELSE Outcome("Ok", [s EXCEPT !.records.fatal = @ \cup {tx_hash}])

\* TxHandler::withdraw
withdraw(s, tx_hash) ==
  IF s.proposal # None
  THEN LET proposal == s.proposal[1]
       IN IF ensure_identical(s.tx[tx_hash][1].raw_tx, proposal.tx)
          THEN Outcome("Ok",
                 [s EXCEPT !.proposal = None,
                           !.records.finished = @ \cup Range(proposal.withdrawal_id_list)])
          ELSE Outcome("not identical",
                 [s EXCEPT !.records.fatal = @ \cup {tx_hash}, !.switch = TRUE])
  ELSE Outcome("Ok", [s EXCEPT !.records.fatal = @ \cup {tx_hash}, !.switch = TRUE])

\* TxHandler::new followed by TxHandler::handle
handle_tx(s, txid) ==
  IF s.tx[txid] = None THEN Outcome("not find this txinfo for this txid", s)
  ELSE CASE s.tx[txid][1].tx_type = "Withdrawal" -> withdraw(s, txid)
         [] s.tx[txid][1].tx_type = "Deposit" -> deposit(s, txid)
         [] OTHER -> Outcome("Ok", s)

\* handle_confirm_block: every txid of the list in order, errors only logged.
RECURSIVE handle_txids(_, _, _)
handle_txids(s, block, txid_list) ==
  IF txid_list = <<>> THEN s
  ELSE LET r == handle_tx(s, txid_list[1])
           s1 == [r.st EXCEPT !.handled =
                    Append(@, [block |-> block, txid |-> txid_list[1], res |-> r.res])]
       IN handle_txids(s1, block, Tail(txid_list))

handle_confirm_block(s, confirmed_header) ==
  handle_txids(s, confirmed_header.header.hash, confirmed_header.txid_list)

\* The loop of update_confirmed_header: up to n more parent links.
RECURSIVE walk_back(_, _, _)
walk_back(s, prev_hash, n) ==
  IF n = 0 \/ s.hdr[prev_hash] = None THEN prev_hash
  ELSE walk_back(s, s.hdr[prev_hash][1].header.previous_header_hash, n - 1)

\* update_confirmed_header with a loop that follows one parent link more.
update_confirmed_header_one_deeper(s, header_info) ==
  LET prev_hash == walk_back(s, header_info.header.previous_header_hash, Confirmations)
  IN IF s.hdr[prev_hash] # None
     THEN LET header == s.hdr[prev_hash][1]
              s1 == handle_confirm_block(s, header)
          IN [s1 EXCEPT !.hdr[prev_hash] = Some([header EXCEPT !.confirmed = TRUE])]
     ELSE s

update_confirmed_header(s, header_info) ==
  LET prev_hash == walk_back(s, header_info.header.previous_header_hash, Confirmations - 1)
  IN IF s.hdr[prev_hash] # None
     THEN LET header == s.hdr[prev_hash][1]
              s1 == handle_confirm_block(s, header)
          IN [s1 EXCEPT !.hdr[prev_hash] = Some([header EXCEPT !.confirmed = TRUE])]
     ELSE s

\* The first loop of withdrawal_list: the blocks from current_hash down, n
\* of them, are searched for a withdrawal equal to the proposal; the last
\* one found gives the txid reported.
RECURSIVE proposal_tx_hash(_, _, _, _)
proposal_tx_hash(s, current_hash, n, tx_hash) ==
  IF n = 0 \/ s.hdr[current_hash] = None THEN tx_hash
  ELSE LET info == s.hdr[current_hash][1]
           found == {i \in 1..Len(info.txid_list) :
                       /\ s.tx[info.txid_list[i]] # None
                       /\ s.tx[info.txid_list[i]][1].tx_type = "Withdrawal"
                       /\ ensure_identical(s.tx[info.txid_list[i]][1].raw_tx,
                                           s.proposal[1].tx)}
           next == IF found = {} THEN tx_hash
                   ELSE <<info.txid_list[CHOOSE i \in found : \A j \in found : j <= i]>>
       IN proposal_tx_hash(s, info.header.previous_header_hash, n - 1, next)

\* withdrawal_list with Signing and Processing exchanged.
withdrawal_list_exchanged(s, applications) ==
  IF s.proposal = None
  THEN [i \in 1..Len(applications) |->
          [withdrawal_id |-> applications[i], txid |-> <<>>, state |-> "Applying"]]
  ELSE LET proposal == s.proposal[1]
           tx_hash == proposal_tx_hash(s, s.best, Confirmations - 1, <<>>)
       IN [i \in 1..Len(applications) |->
             [withdrawal_id |-> applications[i], txid |-> tx_hash,
              state |-> IF applications[i] \in Range(proposal.withdrawal_id_list)
                        THEN IF proposal.sig_state = "Unfinish" THEN "Processing"
                             ELSE "Signing"
                        ELSE "Applying"]]

\* Module::withdrawal_list; applications are the ids of the pending Bitcoin
\* withdrawal applications xrecords hands over, in its order.
withdrawal_list(s, applications) ==
  IF s.proposal = None
  THEN [i \in 1..Len(applications) |->
          [withdrawal_id |-> applications[i], txid |-> <<>>, state |-> "Applying"]]
  ELSE LET proposal == s.proposal[1]
           tx_hash == proposal_tx_hash(s, s.best, Confirmations - 1, <<>>)
       IN [i \in 1..Len(applications) |->
             [withdrawal_id |-> applications[i], txid |-> tx_hash,
              state |-> IF applications[i] \in Range(proposal.withdrawal_id_list)
                        THEN IF proposal.sig_state = "Unfinish" THEN "Signing"
                             ELSE "Processing"
                        ELSE "Applying"]]

\* enum VoteResult, the values of a proposal's sig_state. No header or
\* transaction operation reads or writes the field.
VoteResult == {"Unfinish", "Finish"}

\* The storage with the given sig_state in the stored proposal.
WithSigState(s, v) ==
  [s EXCEPT !.proposal =
     IF @ = None THEN None
     ELSE Some([tx |-> @[1].tx, withdrawal_id_list |-> @[1].withdrawal_id_list,
                sig_state |-> v])]

\* The pending applications xrecords can hold: ids inside and outside the
\* stored proposal's list.
ApplicationLists == {<<>>, <<1>>, <<3>>, <<3, 1>>, <<1, 2, 3>>}

\* lib.rs, apply_push_header: a stored hash is a known block; a new header is
\* converted, stored, and made the best header if it is higher than the best.
apply_push_header(s, header, overflow_checks) ==
  IF s.hdr[header.hash] # None THEN Outcome("KnownBlock", s)
  ELSE LET c == check_prev_and_convert(s, header, overflow_checks)
       IN IF c.err # "Ok" THEN Outcome(c.err, s)
          ELSE LET info == c.info
                   s1 == [s EXCEPT !.hashfor[info.height] =
                                     IF header.hash \in Range(@) THEN @
                                     ELSE Append(@, header.hash),
                                   !.hdr[header.hash] = Some(info)]
               IN IF info.height > s.hdr[s.best][1].height
                  THEN Outcome("Ok",
                         [update_confirmed_header(remove_unused_headers(s1, info), info)
                            EXCEPT !.best = header.hash])
                  ELSE Outcome("Ok", s1)

\* validator.rs, validate_transaction. A relay names the block, the raw
\* transaction, the block whose merkle root its proof reconstructs, whether
\* the proof holds the transaction, and whether previous_raw is input 0's.
validate_transaction(s, tx) ==
  IF s.hdr[tx.block_hash] = None THEN "tx's block header must exist before"
  ELSE IF tx.proof_root # tx.block_hash THEN "Check failed for merkle tree proof"
  ELSE IF ~tx.in_proof THEN "Tx hash should in ParsedPartialMerkleTree"
  ELSE IF ~tx.prev_ok THEN "Previous tx id not equal input point hash"
  ELSE "Ok"

\* lib.rs, apply_push_transaction: a validated transaction is classified and
\* recorded once, with its input address, in the txid list of its block.
apply_push_transaction(s, tx) ==
  LET v == validate_transaction(s, tx)
  IN IF v # "Ok" THEN Outcome(v, s)
     ELSE IF s.tx[tx.raw] # None THEN Outcome("ignored", s)
     ELSE Outcome("Ok",
            [s EXCEPT !.tx[tx.raw] = Some([raw_tx |-> tx.raw,
                                           tx_type |-> Transactions[tx.raw].tx_type]),
                      !.inaddr[tx.raw] = Some(Transactions[tx.raw].input_addr),
                      !.hdr[tx.block_hash] =
                         Some([@[1] EXCEPT !.txid_list = Append(@, tx.raw)])])

\* The relays a relayer can build: a proof exists only for a block that
\* holds the transaction, but it can be sent along with any block hash, cut
\* short, or with a wrong previous transaction.
RelayTx ==
  {tx \in [block_hash : Headers \cup {GenesisHash}, raw : TxIds, proof_root : Headers,
           in_proof : BOOLEAN, prev_ok : BOOLEAN] :
     /\ tx.proof_root \in Transactions[tx.raw].blocks
     /\ tx.block_hash \in Transactions[tx.raw].blocks \cup {GenesisHash}
     /\ (~tx.in_proof \/ ~tx.prev_ok) => tx.block_hash = tx.proof_root
     /\ ~tx.in_proof => tx.prev_ok}

(***************************************************************************)
(* Legacy header chain: cxrml/bridge/btc/src/blockchain.rs                  *)
(* Legacy transaction storage: cxrml/bridge/btc/src/tx/mod.rs               *)
(* It stores the same header tree; BlockHeaderFor, BestIndex, AddressMap,   *)
(* UTXOSet and TxProposal are the storage items of the same names.          *)
(***************************************************************************)

\* IrrBlock and Params.max_fork_route_preset, as configured.
IrrBlock == 1

MaxForkRoute == 3

BtcFee == 0

VARIABLES
  NumberForHash,    \* map H256 => Option<u32>
  HashsForNumber,   \* map u32 => Vec<H256>
  BlockTxids,       \* map H256 => Vec<H256>
  TxSet,            \* map H256 => Option<(AccountId, Address, TxType, u64, Transaction)>
  DepositCache,     \* Option<Vec<(AccountId, u64, H256)>>
  ReceiveAddress,   \* Option<Vec<u8>>
  excursion,        \* history: the chain state a reorganization left behind
  rollbacks         \* history: the number of rollback_best calls so far

chainVars ==
  <<NumberForHash, HashsForNumber, BlockTxids, TxSet, DepositCache, ReceiveAddress,
    excursion, rollbacks>>

\* The storage of the legacy bridge module, as one value.
Legacy ==
  [hdr |-> BlockHeaderFor, best |-> BestIndex, num |-> NumberForHash,
   hashs |-> HashsForNumber, blocktx |-> BlockTxids, txset |-> TxSet, utxo |-> UTXOSet,
   cache |-> DepositCache, proposal |-> TxProposal, addrmap |-> AddressMap,
   receive |-> ReceiveAddress, records |-> Records]

\* The relayed transactions of the legacy bridge:
\*   e1: addr1 pays 1 to the receive address and binds addr1 to a1
\*   e2: addr1 pays 2 to the receive address, without OP_RETURN
\*   e3: the trustee spends output 0 of e1, paying 1 to addr1
\* prev_outputs are the outputs of previous_raw, the transaction input 0
\* spends from, and send_address the destination of the output it spends.
LegacyTxs ==
  [e1 |-> [inputs |-> <<[hash |-> "x1", index |-> 0]>>, send_address |-> "addr1",
           prev_outputs |-> <<[value |-> 1, to |-> "addr1", null_data |-> None]>>,
           outputs |-> <<[value |-> 1, to |-> "recv", null_data |-> None],
                         [value |-> 0, to |-> "none", null_data |-> Some("a1")]>>,
           blocks |-> {<<"a", 1>>, <<"b", 2>>}],
   e2 |-> [inputs |-> <<[hash |-> "x2", index |-> 0]>>, send_address |-> "addr1",
           prev_outputs |-> <<[value |-> 2, to |-> "addr1", null_data |-> None]>>,
           outputs |-> <<[value |-> 2, to |-> "recv", null_data |-> None]>>,
           blocks |-> {<<"a", 2>>}],
   e3 |-> [inputs |-> <<[hash |-> "e1", index |-> 0]>>, send_address |-> "recv",
           prev_outputs |-> <<[value |-> 1, to |-> "recv", null_data |-> None],
                              [value |-> 0, to |-> "none", null_data |-> Some("a1")]>>,
           outputs |-> <<[value |-> 1, to |-> "addr1", null_data |-> None]>>,
           blocks |-> {<<"a", 2>>, <<"b", 3>>}]]

LegacyTxIds == DOMAIN LegacyTxs

\* is_key: the output script pays the receive address.
is_key(output, receive_address) == output.null_data = None /\ output.to = receive_address

\* RollBack::rollback_tx for the transactions of one block.
RECURSIVE rollback_txids(_, _, _, _)
rollback_txids(utxo, txset, receive_address, txids) ==
  IF txids = <<>> THEN utxo
  ELSE LET txid == txids[1]
           tx == LegacyTxs[txid]
           n == Len(tx.outputs)
           next ==
             CASE txset[txid][1].tx_type = "Withdraw" ->
                    LET u1 == update_from_outpoint(utxo, tx.inputs, FALSE)
                        paying == {i \in 1..n : is_key(tx.outputs[i], receive_address)}
                        out_point_set2 ==
                          [k \in 1..Cardinality(paying) |->
                             [hash |-> txid,
                              index |-> (CHOOSE i \in paying :
                                           Cardinality({j \in paying : j < i}) = k - 1) - 1]]
                    IN update_from_outpoint(u1, out_point_set2, TRUE)
               [] txset[txid][1].tx_type = "Register" -> utxo
               [] OTHER ->
                    update(utxo,
                           [i \in 1..n |-> [txid |-> txid, index |-> i - 1,
                                            balance |-> tx.outputs[i].value,
                                            is_spent |-> FALSE]],
                           TRUE)
       IN rollback_txids(next, txset, receive_address, Tail(txids))

rollback_tx(c, header) ==
  IF c.receive = None THEN Outcome("should set RECEIVE_ADDRESS first", c)
  ELSE Outcome("Ok", [c EXCEPT !.utxo = rollback_txids(c.utxo, c.txset, c.receive[1], c.blocktx[header])])

\* decanonize taking the best block off the main chain before the rollback
\* of its transactions has succeeded.
decanonize_unlink_first(c) ==
  LET best_hash == c.best.hash
      best_bumber == c.best.number
  IN IF c.hdr[best_hash] = None THEN [res |-> "panic", st |-> c, hash |-> best_hash]
     ELSE LET prev == c.hdr[best_hash][1].header.previous_header_hash
              unlinked == [c EXCEPT !.num[best_hash] = None,
                                    !.best = [hash |-> prev,
                                              number |-> IF best_bumber > 0
                                                         THEN best_bumber - 1 ELSE 0]]
              r == rollback_tx(unlinked, best_hash)
          IN IF best_bumber = 0 /\ prev # ZeroHash
             THEN [res |-> "DecanonizeMustZero", st |-> c, hash |-> best_hash]
             ELSE [res |-> r.res, st |-> r.st, hash |-> best_hash]

\* Chain::decanonize; hash is the hash it returns on success.
decanonize(c) ==
  LET best_hash == c.best.hash
      best_bumber == c.best.number
  IN IF c.hdr[best_hash] = None THEN [res |-> "panic", st |-> c, hash |-> best_hash]
     ELSE LET best_header == c.hdr[best_hash][1].header
              prev == best_header.previous_header_hash
          IN IF best_bumber = 0 /\ prev # ZeroHash
             THEN [res |-> "DecanonizeMustZero", st |-> c, hash |-> best_hash]
             ELSE LET new_best_header ==
                        [hash |-> prev,
                         number |-> IF best_bumber > 0 THEN best_bumber - 1 ELSE 0]
                      r == rollback_tx(c, best_hash)
                  IN IF r.res # "Ok" THEN [res |-> r.res, st |-> c, hash |-> best_hash]
                     ELSE [res |-> "Ok",
                           st |-> [r.st EXCEPT !.num[best_hash] = None,
                                               !.best = new_best_header],
                           hash |-> best_hash]

\* The Deposit part of canonize: the cached deposits whose block is deep
\* enough below the new best header are credited, the others kept.
RECURSIVE credit_cache(_, _, _, _)
credit_cache(c, vec, number, uncomplete_cache) ==
  IF vec = <<>> THEN [c EXCEPT !.cache = Some(uncomplete_cache)]
  ELSE LET e == vec[1]
           height == c.num[e.block_hash]
       IN IF height # None /\ number > height[1] + IrrBlock
          THEN credit_cache([c EXCEPT !.records.balance[e.account_id] = @ + e.amount],
                            Tail(vec), number, uncomplete_cache)
          ELSE credit_cache(c, Tail(vec), number, Append(uncomplete_cache, e))

\* finacial_recordes::withdrawal_finish for the account of every output
\* address that AddressMap binds.
finish_outputs(c, outputs) ==
  LET accounts == {c.addrmap[outputs[i].to][1] :
                     i \in {j \in 1..Len(outputs) : c.addrmap[outputs[j].to] # None}}
  IN [c EXCEPT !.records.finished = @ \cup accounts,
               !.records.wcache = SelectSeq(@, LAMBDA e : e.account_id \notin accounts)]

\* The address AccountMap keeps for an account: the one AddressMap binds.
AccountMap(c, account_id) ==
  LET as == {a \in DOMAIN c.addrmap : c.addrmap[a] = Some(account_id)}
  IN IF as = {} THEN None ELSE Some(CHOOSE a \in as : TRUE)

\* tx/proposal.rs of the legacy bridge: create_proposal for a list of
\* (address, balance), built as the proposal builder builds it.
legacy_create_proposal(c, address_vec, fee) ==
  LET app == [i \in 1..Len(address_vec) |->
                Some([balance |-> address_vec[i].balance, addr |-> address_vec[i].address,
                      addr_ok |-> TRUE])]
      r == create_proposal([utxo |-> c.utxo, proposal |-> c.proposal, app |-> app,
                            trustee |-> c.receive],
                           [i \in 1..Len(address_vec) |-> i], fee)
  IN IF r.res = "Ok"
     THEN [c EXCEPT !.proposal = Some([tx |-> r.st.proposal[1].tx,
                                       outs |-> r.st.proposal[1].outs,
                                       block_hash |-> ZeroHash])]
     ELSE c

\* The (address, balance) list canonize builds from the withdraw cache.
address_vec_of(c) ==
  LET known == SelectSeq(c.records.wcache, LAMBDA e : AccountMap(c, e.account_id) # None)
  IN [i \in 1..Len(known) |->
        [address |-> AccountMap(c, known[i].account_id)[1], balance |-> known[i].balance]]

\* The Withdraw part of canonize.
settle_candidate(c, number) ==
  IF c.proposal = None THEN c
  ELSE LET tx == c.proposal[1]
           height == c.num[tx.block_hash]
       IN IF height # None /\ number > height[1] + IrrBlock
          THEN LET c1 == finish_outputs(c, tx.tx.outputs)
               IN IF c1.records.wcache # <<>>
                  THEN legacy_create_proposal(c1, address_vec_of(c1), BtcFee)
                  ELSE [c1 EXCEPT !.proposal = None]
          ELSE c

\* Chain::canonize without the NumberForHash insert.
canonize_unnumbered(c, hash) ==
  IF c.hdr[hash] = None THEN Outcome("panic", c)
  ELSE LET header == c.hdr[hash][1].header
       IN IF c.best.hash # header.previous_header_hash THEN Outcome("CannotCanonize", c)
          ELSE Outcome("Ok",
                 [c EXCEPT !.hashs[c.best.number + 1] = Append(@, hash),
                           !.best = [hash |-> hash, number |-> c.best.number + 1]])

\* Chain::canonize
canonize(c, hash) ==
  IF c.hdr[hash] = None THEN Outcome("panic", c)
  ELSE LET header == c.hdr[hash][1].header
       IN IF c.best.hash # header.previous_header_hash THEN Outcome("CannotCanonize", c)
          ELSE IF header.previous_header_hash = ZeroHash /\ c.best.number # 0
          THEN Outcome("CanonizeMustZero", c)
          ELSE
            LET new_best_header ==
                  [hash |-> hash,
                   number |-> IF header.previous_header_hash = ZeroHash THEN 0
                              ELSE c.best.number + 1]
                c1 == IF c.cache # None
                      THEN credit_cache(c, c.cache[1], new_best_header.number, <<>>)
                      ELSE c
                c2 == settle_candidate(c1, new_best_header.number)
            IN Outcome("Ok",
                 [c2 EXCEPT !.num[hash] = Some(new_best_header.number),
                            !.hashs[new_best_header.number] =
                               IF hash \in Range(@) THEN @ ELSE Append(@, hash),
                            !.best = new_best_header])

\* Chain::fork unwinding the decanonized route from its first hash on.
RECURSIVE fork_decanonize_ascending(_, _)
fork_decanonize_ascending(c, route) ==
  IF route = <<>> THEN Outcome("Ok", c)
  ELSE LET d == decanonize(c)
       IN IF d.res # "Ok" THEN Outcome(d.res, d.st)
          ELSE IF route[1] # d.hash THEN Outcome("ForkErr", d.st)
          ELSE fork_decanonize_ascending(d.st, Tail(route))

\* Chain::fork, first half: the decanonized route from its last hash on.
RECURSIVE fork_decanonize(_, _)
fork_decanonize(c, route) ==
  IF route = <<>> THEN Outcome("Ok", c)
  ELSE LET d == decanonize(c)
       IN IF d.res # "Ok" THEN Outcome(d.res, d.st)
          ELSE IF route[Len(route)] # d.hash THEN Outcome("ForkErr", d.st)
          ELSE fork_decanonize(d.st, SubSeq(route, 1, Len(route) - 1))

\* Chain::fork, second half: the canonized route from its first hash on.
RECURSIVE fork_canonize(_, _)
fork_canonize(c, route) ==
  IF route = <<>> THEN Outcome("Ok", c)
  ELSE LET r == canonize(c, route[1])
       IN IF r.res # "Ok" THEN r ELSE fork_canonize(r.st, Tail(route))

fork(c, side_chain) ==
  LET d == fork_decanonize(c, side_chain.decanonized_route)
  IN IF d.res # "Ok" THEN d ELSE fork_canonize(d.st, side_chain.canonized_route)

\* The loop of block_origin reorganizing already at equal height.
RECURSIVE side_chain_origin_eager(_, _, _, _)
side_chain_origin_eager(c, next_hash, fork_len, sidechain_route) ==
  IF fork_len >= MaxForkRoute THEN [res |-> "AncientFork"]
  ELSE IF c.num[next_hash] = None
  THEN IF c.hdr[next_hash] = None THEN [res |-> "NotFound"]
       ELSE side_chain_origin_eager(c, c.hdr[next_hash][1].header.previous_header_hash,
                                    fork_len + 1, <<next_hash>> \o sidechain_route)
  ELSE LET number == c.num[next_hash][1]
           block_number == number + fork_len + 1
       IN [res |-> "Ok",
           kind |-> IF block_number >= c.best.number THEN "SideChainBecomingCanonChain"
                    ELSE "SideChain",
           origin |-> [ancestor |-> number, canonized_route |-> sidechain_route,
                       decanonized_route |->
                         [k \in 1..(c.best.number - number) |->
                            CHOOSE h \in DOMAIN c.num : c.num[h] = Some(number + k)],
                       block_number |-> block_number]]

\* The loop of block_origin running one step past the fork bound.
RECURSIVE side_chain_origin_one_more(_, _, _, _)
side_chain_origin_one_more(c, next_hash, fork_len, sidechain_route) ==
  IF fork_len > MaxForkRoute THEN [res |-> "AncientFork"]
  ELSE IF c.num[next_hash] = None
  THEN IF c.hdr[next_hash] = None THEN [res |-> "NotFound"]
       ELSE side_chain_origin_one_more(c, c.hdr[next_hash][1].header.previous_header_hash,
                                       fork_len + 1, <<next_hash>> \o sidechain_route)
  ELSE LET number == c.num[next_hash][1]
           block_number == number + fork_len + 1
           on_main == [bn \in (number + 1)..c.best.number |->
                         SelectSeq(c.hashs[bn], LAMBDA h : c.num[h] # None)]
           found == {bn \in DOMAIN on_main : on_main[bn] # <<>>}
           decanonized_route ==
             [k \in 1..Cardinality(found) |->
                on_main[CHOOSE bn \in found : Cardinality({x \in found : x < bn}) = k - 1][1]]
       IN [res |-> "Ok",
           kind |-> IF block_number > c.best.number THEN "SideChainBecomingCanonChain"
                    ELSE "SideChain",
           origin |-> [ancestor |-> number, canonized_route |-> sidechain_route,
                       decanonized_route |-> decanonized_route,
                       block_number |-> block_number]]

\* The loop of block_origin over the side chain route.
RECURSIVE side_chain_origin(_, _, _, _)
side_chain_origin(c, next_hash, fork_len, sidechain_route) ==
  IF fork_len >= MaxForkRoute THEN [res |-> "AncientFork"]
  ELSE IF c.num[next_hash] = None
  THEN IF c.hdr[next_hash] = None THEN [res |-> "NotFound"]
       ELSE side_chain_origin(c, c.hdr[next_hash][1].header.previous_header_hash,
                              fork_len + 1, <<next_hash>> \o sidechain_route)
  ELSE LET number == c.num[next_hash][1]
           block_number == number + fork_len + 1
           on_main == [bn \in (number + 1)..c.best.number |->
                         SelectSeq(c.hashs[bn], LAMBDA h : c.num[h] # None)]
           found == {bn \in DOMAIN on_main : on_main[bn] # <<>>}
           decanonized_route ==
             [k \in 1..Cardinality(found) |->
                on_main[CHOOSE bn \in found : Cardinality({x \in found : x < bn}) = k - 1][1]]
       IN [res |-> "Ok",
           kind |-> IF block_number > c.best.number THEN "SideChainBecomingCanonChain"
                    ELSE "SideChain",
           origin |-> [ancestor |-> number, canonized_route |-> sidechain_route,
                       decanonized_route |-> decanonized_route,
                       block_number |-> block_number]]

\* Chain::block_origin without the lookup of the parent's header.
block_origin_unchecked_parent(c, header) ==
  IF c.hdr[c.best.hash] = None THEN [res |-> "panic"]
  ELSE IF c.num[header.hash] # None THEN [res |-> "Ok", kind |-> "KnownBlock"]
  ELSE IF c.best.hash = header.previous_header_hash
  THEN [res |-> "Ok", kind |-> "CanonChain"]
  ELSE side_chain_origin(c, header.previous_header_hash, 0, <<>>)

\* Chain::block_origin
block_origin(c, header) ==
  IF c.hdr[c.best.hash] = None THEN [res |-> "panic"]
  ELSE IF c.num[header.hash] # None THEN [res |-> "Ok", kind |-> "KnownBlock"]
  ELSE IF c.best.hash = header.previous_header_hash
  THEN [res |-> "Ok", kind |-> "CanonChain"]
  ELSE IF c.hdr[header.previous_header_hash] = None THEN [res |-> "UnknownParent"]
  ELSE side_chain_origin(c, header.previous_header_hash, 0, <<>>)

\* Chain::insert_best_header
insert_best_header(c, header) ==
  LET o == block_origin(c, header)
  IN IF o.res # "Ok" THEN Outcome(o.res, c)
     ELSE CASE o.kind = "KnownBlock" -> Outcome("Unreachable", c)
            [] o.kind = "CanonChain" -> canonize(c, header.hash)
            [] o.kind = "SideChainBecomingCanonChain" ->
                 LET f == fork(c, o.origin)
                 IN IF f.res # "Ok" THEN f ELSE canonize(f.st, header.hash)
            [] OTHER -> Outcome("Ok", c)

\* lib.rs, process_header: a stored hash is a known block, a header without
\* a stored parent is refused; a new header is stored and handed to
\* insert_best_header, whose error is returned.
StoreHeader(c, header) == [c EXCEPT !.hdr[header.hash] = Some([header |-> header])]

\* process_header without its duplicate check.
process_header_unchecked(c, header) ==
  IF c.hdr[header.previous_header_hash] = None THEN Outcome("UnknownParent", c)
  ELSE insert_best_header(StoreHeader(c, header), header)

process_header(c, header) ==
  IF c.hdr[header.hash] # None THEN Outcome("KnownBlock", c)
  ELSE IF c.hdr[header.previous_header_hash] = None THEN Outcome("UnknownParent", c)
  ELSE insert_best_header(StoreHeader(c, header), header)

\* inspect_address: the destination of output index of the transaction with
\* these outputs, if the script has exactly one; an index past the last
\* output is an out-of-bounds access.
inspect_address(outputs, index) ==
  IF index + 1 > Len(outputs) THEN [res |-> "panic"]
  ELSE LET o == outputs[index + 1]
       IN [res |-> "Ok",
           address |-> IF o.null_data = None /\ o.to # "none" THEN Some(o.to) ELSE None]

\* The loop "detect withdraw" of validate_transaction: every input's outpoint
\* is looked up in previous_raw, and the address found is unwrapped.
RECURSIVE detect_withdraw(_, _, _)
detect_withdraw(inputs, prev_outputs, receive_address) ==
  IF inputs = <<>> THEN "no"
  ELSE LET send_address == inspect_address(prev_outputs, inputs[1].index)
       IN IF send_address.res = "panic" \/ send_address.address = None THEN "panic"
          ELSE IF send_address.address[1] = receive_address THEN "yes"
          ELSE detect_withdraw(Tail(inputs), prev_outputs, receive_address)

\* The end of validate_transaction: the type of a transaction that passed
\* the checks of its relay.
detect_type(raw, receive_address) ==
  LET w == detect_withdraw(raw.inputs, raw.prev_outputs, receive_address)
  IN IF w = "panic" THEN [res |-> "panic"]
     ELSE IF w = "yes" THEN [res |-> "Ok", tx_type |-> "Withdraw"]
     ELSE IF \E i \in 1..Len(raw.outputs) : is_key(raw.outputs[i], receive_address)
     THEN [res |-> "Ok", tx_type |-> "RegisterDeposit"]
     ELSE [res |-> "not found our pubkey, may be an unrelated tx"]

\* tx/mod.rs, validate_transaction of the legacy bridge.
legacy_validate_transaction(c, tx) ==
  LET raw == LegacyTxs[tx.raw]
  IN IF c.num[tx.block_hash] = None THEN [res |-> "this tx's block not in the main chain"]
     ELSE IF c.hdr[tx.block_hash] = None THEN [res |-> "not has this block header yet"]
     ELSE IF tx.proof_root # tx.block_hash THEN [res |-> "check failed for merkle tree proof"]
     ELSE IF ~tx.in_proof THEN [res |-> "txid should in ParsedPartialMerkleTree"]
     ELSE IF ~tx.prev_ok THEN [res |-> "previous tx id not right"]
     ELSE detect_type(raw, c.receive[1])

\* TxStorage::store_tx
store_tx(c, txid, block_hash, tx_type, balance) ==
  [c EXCEPT !.blocktx[block_hash] = Append(@, txid),
            !.txset[txid] = Some([tx_type |-> tx_type, balance |-> balance, tx |-> txid])]

RECURSIVE SumValues(_, _)
SumValues(outputs, receive_address) ==
  IF outputs = <<>> THEN 0
  ELSE (IF is_key(outputs[1], receive_address) THEN outputs[1].value ELSE 0)
         + SumValues(Tail(outputs), receive_address)

\* handle_input; the stored balance is a u64 difference.
handle_input(c, txid, block_hash) ==
  LET tx == LegacyTxs[txid]
      update_balance == SumBalance([k \in 1..Len(tx.inputs) |->
                          LET i == LastIndex({j \in 1..Len(c.utxo) :
                                                /\ tx.inputs[k].hash = c.utxo[j].txid
                                                /\ tx.inputs[k].index = c.utxo[j].index})
                          IN [balance |-> IF i = 0 THEN 0 ELSE c.utxo[i].balance]])
      c1 == [c EXCEPT !.utxo = update_from_outpoint(c.utxo, tx.inputs, TRUE)]
  IN store_tx(c1, txid, block_hash, "Withdraw",
              sub_u32(update_balance, SumValues(tx.outputs, c.receive[1])))

\* handle_output
handle_output(c, txid, block_hash) ==
  LET tx == LegacyTxs[txid]
      n == Len(tx.outputs)
      binds == {i \in 1..n : tx.outputs[i].null_data # None}
      register == binds # {}
      is_in_accounts ==
        register /\ (c.addrmap[tx.send_address] # None \/ Cardinality(binds) > 1)
      last == CHOOSE i \in binds : \A j \in binds : j <= i
      c1 == IF register
            THEN [c EXCEPT !.addrmap[tx.send_address] = tx.outputs[last].null_data]
            ELSE c
      paying == {i \in 1..n : is_key(tx.outputs[i], c.receive[1])}
      new_utxos == [k \in 1..Cardinality(paying) |->
                      LET i == CHOOSE x \in paying : Cardinality({j \in paying : j < x}) = k - 1
                      IN [txid |-> txid, index |-> i - 1, balance |-> tx.outputs[i].value,
                          is_spent |-> FALSE]]
      total_balance == SumValues(tx.outputs, c.receive[1])
  IN IF total_balance = 0
     THEN Outcome("Ok", store_tx(c1, txid, block_hash, "Register", total_balance))
     ELSE IF ~is_in_accounts /\ c1.addrmap[tx.send_address] = None THEN Outcome("panic", c)
     ELSE Outcome("Ok",
            [store_tx(c1, txid, block_hash,
                      IF register THEN "RegisterDeposit" ELSE "Deposit", total_balance)
               EXCEPT !.utxo = add(c1.utxo, new_utxos)])

\* process_tx that does not look for the stored transaction.
process_tx_unchecked(c, tx) ==
  IF c.receive = None THEN Outcome("should set RECEIVE_ADDRESS first", c)
  ELSE LET v == legacy_validate_transaction(c, tx)
       IN IF v.res # "Ok" THEN Outcome(v.res, c)
          ELSE IF v.tx_type = "Withdraw"
          THEN LET c1 == handle_input(c, tx.raw, tx.block_hash)
               IN Outcome("Ok",
                    IF c1.proposal = None THEN c1
                    ELSE [c1 EXCEPT !.proposal[1].block_hash = tx.block_hash])
          ELSE LET r == handle_output(c, tx.raw, tx.block_hash)
                   total == SumValues(LegacyTxs[tx.raw].outputs, c.receive[1])
                   account == r.st.addrmap[LegacyTxs[tx.raw].send_address]
                   entry == [account_id |-> account[1], amount |-> total,
                             block_hash |-> tx.block_hash]
               IN IF r.res # "Ok" \/ total = 0 THEN r
                  ELSE Outcome("Ok",
                         [r.st EXCEPT !.cache =
                            Some(Append(IF @ = None THEN <<>> ELSE @[1], entry))])

\* lib.rs, process_tx: a relayed transaction is validated and classified,
\* stored once, and a deposit for a bound account enters the deposit cache;
\* a withdrawal found in a block gives the candidate its block hash.
process_tx(c, tx) ==
  IF c.receive = None THEN Outcome("should set RECEIVE_ADDRESS first", c)
  ELSE LET v == legacy_validate_transaction(c, tx)
       IN IF v.res # "Ok" THEN Outcome(v.res, c)
          ELSE IF c.txset[tx.raw] # None THEN Outcome("ignored", c)
          ELSE IF v.tx_type = "Withdraw"
          THEN LET c1 == handle_input(c, tx.raw, tx.block_hash)
               IN Outcome("Ok",
                    IF c1.proposal = None THEN c1
                    ELSE [c1 EXCEPT !.proposal[1].block_hash = tx.block_hash])
          ELSE LET r == handle_output(c, tx.raw, tx.block_hash)
                   total == SumValues(LegacyTxs[tx.raw].outputs, c.receive[1])
                   account == r.st.addrmap[LegacyTxs[tx.raw].send_address]
                   entry == [account_id |-> account[1], amount |-> total,
                             block_hash |-> tx.block_hash]
               IN IF r.res # "Ok" \/ total = 0 THEN r
                  ELSE Outcome("Ok",
                         [r.st EXCEPT !.cache =
                            Some(Append(IF @ = None THEN <<>> ELSE @[1], entry))])

\* The headers relayed to the legacy chain: two branches from the genesis
\* header, long enough to exceed the fork bound, and a header whose parent
\* is never relayed.
LegacyHeaders ==
  {<<"a", i>> : i \in 1..(MaxForkRoute + 1)} \cup {<<"b", i>> : i \in 1..MaxForkRoute}
    \cup {<<"o", 1>>}

\* The relayed transactions offered: each transaction with a proof for a
\* block it is in.
LegacyRelayTx ==
  {[block_hash |-> p[1], raw |-> p[2], proof_root |-> p[1], in_proof |-> TRUE,
     prev_ok |-> TRUE] :
     p \in {q \in LegacyHeaders \X LegacyTxIds : q[1] \in LegacyTxs[q[2]].blocks}}

(***************************************************************************)
(* Specifications                                                          *)
(***************************************************************************)

\* What each subsystem's operations leave alone.
notLedger == <<proposalVars, headerVars, chainVars>>

notProposal == <<ledgerVars, headerVars, chainVars>>

notHeader == <<ledgerVars, proposalVars, chainVars>>

\* The withdrawal records of xrecords: two well-formed applications, one
\* whose address does not parse, and an id without a record.
Applications ==
  [i \in 1..4 |->
     CASE i = 1 -> Some([balance |-> 2, addr |-> "b1", addr_ok |-> TRUE])
       [] i = 2 -> Some([balance |-> 1, addr |-> "b2", addr_ok |-> TRUE])
       [] i = 3 -> Some([balance |-> 1, addr |-> "bad", addr_ok |-> FALSE])
       [] OTHER -> None]

\* The bridge before any deposit: nothing tracked, nothing proposed.
IdleProposal ==
  /\ UTXOSet = <<>>
  /\ TxProposal = None
  /\ ApplicationMap = Applications
  /\ TrusteeAddress = None

\* The header chain as the genesis build leaves it, the genesis header at
\* the given height, with the given withdrawal proposal outstanding.
GenesisHeader(number, proposal) ==
  /\ BlockHeaderFor =
       [h \in HashSpace |->
          IF h = GenesisHash
          THEN Some([header |-> BlockHeader(h), height |-> number, confirmed |-> TRUE,
                     txid_list |-> <<>>])
          ELSE None]
  /\ BlockHashFor = [n \in Heights |-> IF n = number THEN <<GenesisHash>> ELSE <<>>]
  /\ BestIndex = GenesisHash
  /\ TxFor = [t \in TxIds |-> None]
  /\ InputAddrFor = [t \in TxIds |-> None]
  /\ PendingDepositMap = [a \in Addresses |-> None]
  /\ CurrentWithdrawalProposal = proposal
  /\ Switch = FALSE
  /\ AddressMap = [a \in Addresses |-> None]
  /\ Records = [credited |-> [t \in TxIds |-> 0], balance |-> [a \in Accounts |-> 0],
                finished |-> {}, fatal |-> {}]
  /\ handled = <<>>

IdleHeader == GenesisHeader(Confirmations, None)

\* The legacy chain storage, empty.
IdleChain ==
  /\ NumberForHash = [h \in HashSpace |-> None]
  /\ HashsForNumber = [n \in Heights |-> <<>>]
  /\ BlockTxids = [h \in HashSpace |-> <<>>]
  /\ TxSet = [t \in LegacyTxIds |-> None]
  /\ DepositCache = None
  /\ ReceiveAddress = None
  /\ excursion = None
  /\ rollbacks = 0

InitLedgerState ==
  /\ AssetInfo = [t \in Tokens |-> IF t = PCX THEN "valid" ELSE "none"]
  /\ AssetBalance = [k \in Accounts \X Tokens |-> [t \in AssetType |-> 0]]
  /\ TotalAssetBalance = [t \in Tokens |-> [y \in AssetType |-> 0]]
  /\ FreeBalance = [a \in Accounts |-> 0]
  /\ TotalIssuance = 0
  /\ TokenBalances = EmptyTokenBalances

InitLedger == InitLedgerState /\ ret = [op |-> "none", res |-> "Ok"]

Commit(op, r) ==
  /\ AssetInfo' = r.st.info
  /\ AssetBalance' = r.st.bal
  /\ TotalAssetBalance' = r.st.total
  /\ FreeBalance' = r.st.free
  /\ TotalIssuance' = r.st.issuance
  /\ UNCHANGED TokenBalances
  /\ ret' = [op |-> op, res |-> r.res]
  /\ UNCHANGED notLedger

RegisterAsset ==
  \E token \in LedgerTokens, is_online \in BOOLEAN, free \in Balances :
    Commit("register_asset", register_asset(Ledger, token, is_online, free))

RevokeAsset ==
  \E token \in LedgerTokens : Commit("revoke_asset", revoke_asset(Ledger, token))

Issue ==
  \E token \in LedgerTokens, who \in Accounts, value \in Balances, hook_ok \in BOOLEAN :
    Commit("issue", issue(Ledger, token, who, value, hook_ok))

Destroy ==
  \E token \in LedgerTokens, who \in Accounts, value \in Balances :
    Commit("destroy", destroy(Ledger, token, who, value))

MoveBalance ==
  \E token \in LedgerTokens, from \in Accounts, to \in Accounts,
     from_type \in AssetType, to_type \in AssetType, value \in Balances :
    Commit("move_balance", move_balance(Ledger, token, from, from_type, to, to_type, value))

SetBalanceByRoot ==
  \E token \in LedgerTokens, who \in Accounts, balances \in BalanceMaps :
    Commit("set_balance_by_root", set_balance_by_root(Ledger, who, token, balances))

NextLedger ==
  \/ RegisterAsset
  \/ RevokeAsset
  \/ Issue
  \/ Destroy
  \/ MoveBalance
  \/ SetBalanceByRoot

vars == <<ledgerVars, ret, proposalVars, headerVars, chainVars>>

Init == InitLedger /\ IdleProposal /\ IdleHeader /\ IdleChain

SpecLedger == Init /\ [][NextLedger]_vars


(***************************************************************************)
(* The ledger operations on the native token                               *)
(***************************************************************************)

\* on_issue of the native token reaches no fallible hook.
IssueNative ==
  \E who \in Accounts, value \in Balances :
    Commit("issue", issue(Ledger, PCX, who, value, TRUE))

MoveNative ==
  \E from \in Accounts, to \in Accounts,
     from_type \in AssetType, to_type \in AssetType, value \in Balances :
    Commit("move_balance", move_balance(Ledger, PCX, from, from_type, to, to_type, value))

SetBalanceNative ==
  \E who \in Accounts, balances \in BalanceMaps :
    Commit("set_balance_by_root", set_balance_by_root(Ledger, who, PCX, balances))

RevokeNative == Commit("revoke_asset", revoke_asset(Ledger, PCX))

NextNative ==
  \/ IssueNative
  \/ MoveNative
  \/ SetBalanceNative
  \/ RevokeNative

SpecNative == Init /\ [][NextNative]_vars


(***************************************************************************)
(* The legacy token ledger                                                 *)
(***************************************************************************)

CommitTokens(op, r) ==
  /\ TokenBalances' = r.st
  /\ ret' = [op |-> op, res |-> r.res]
  /\ UNCHANGED <<AssetInfo, AssetBalance, TotalAssetBalance, FreeBalance, TotalIssuance,
                 notLedger>>

RegisterToken ==
  \E sym \in LegacySymbols, free \in Balances, reserved \in Balances :
    CommitTokens("register_token", register_token(TokenBalances, sym, free, reserved))

CancelToken ==
  \E sym \in LegacySymbols : CommitTokens("cancel_token", cancel_token(TokenBalances, sym))

IssueToken ==
  \E who \in Accounts, sym \in LegacySymbols, value \in Balances, liquid \in BOOLEAN :
    CommitTokens("issue", issue_token(TokenBalances, who, sym, value, liquid))

DestroyToken ==
  \E who \in Accounts, sym \in LegacySymbols, value \in Balances, liquid \in BOOLEAN :
    CommitTokens("destroy", destroy_token(TokenBalances, who, sym, value, liquid))

Reserve ==
  \E who \in Accounts, sym \in LegacySymbols, value \in Balances, liquid \in BOOLEAN :
    CommitTokens("reserve", reserve(TokenBalances, who, sym, value, liquid))

Unreserve ==
  \E who \in Accounts, sym \in LegacySymbols, value \in Balances, liquid \in BOOLEAN :
    CommitTokens("unreserve", unreserve(TokenBalances, who, sym, value, liquid))

MoveFreeToken ==
  \E from \in Accounts, to \in Accounts, sym \in LegacySymbols, value \in Balances,
     liquid \in BOOLEAN :
    CommitTokens("move_free_token",
                 move_free_token(TokenBalances, from, to, sym, value, liquid))

TransferToken ==
  \E transactor \in Accounts, dest \in Accounts, sym \in LegacySymbols,
     value \in Balances, fee_ok \in BOOLEAN :
    CommitTokens("transfer_token",
                 transfer_token(TokenBalances, transactor, dest, sym, value, fee_ok))

NextTokens ==
  \/ RegisterToken
  \/ CancelToken
  \/ IssueToken
  \/ DestroyToken
  \/ Reserve
  \/ Unreserve
  \/ MoveFreeToken
  \/ TransferToken

SpecTokens == Init /\ [][NextTokens]_vars


(***************************************************************************)
(* The proposal builder over the UTXO set                                  *)
(***************************************************************************)

InitProposal ==
  /\ UTXOSet = <<>>
  /\ TxProposal = None
  /\ ApplicationMap = Applications
  /\ TrusteeAddress \in {None, Some("trustee")}
  /\ ret = [op |-> "none", res |-> "Ok"]

\* The sequences of withdrawal record ids a call can pass.
IdLists == {<<>>} \cup {<<i>> : i \in 1..4} \cup {<<i, j>> : i \in 1..4, j \in 1..4}

\* A deposit output paying the trustee is appended to the UTXO set.
AddUTXO ==
  /\ Len(UTXOSet) < MaxUTXO
  /\ \E value \in UTXOValues :
       UTXOSet' = add(UTXOSet, <<[txid |-> UtxoTxid(Len(UTXOSet) + 1), index |-> 0,
                                  balance |-> value, is_spent |-> FALSE]>>)
  /\ ret' = [op |-> "add", res |-> "Ok"]
  /\ UNCHANGED <<TxProposal, ApplicationMap, TrusteeAddress, notProposal>>

\* The inputs of a relayed transaction mark the UTXOs they spend.
SpendUTXO ==
  /\ \E i \in 1..Len(UTXOSet) :
       UTXOSet' = update_from_outpoint(UTXOSet, <<OutPointOf(UTXOSet[i])>>, TRUE)
  /\ ret' = [op |-> "update_from_outpoint", res |-> "Ok"]
  /\ UNCHANGED <<TxProposal, ApplicationMap, TrusteeAddress, notProposal>>

CreateProposal ==
  \E indexs \in IdLists, fee \in Fees :
    LET r == create_proposal(Bridge, indexs, fee)
    IN /\ TxProposal' = r.st.proposal
       /\ ret' = [op |-> "create_proposal", res |-> r.res]
       /\ UNCHANGED <<UTXOSet, ApplicationMap, TrusteeAddress, notProposal>>

\* The confirmed withdrawal transaction consumes the proposal.
TakeProposal ==
  /\ TxProposal # None
  /\ TxProposal' = None
  /\ ret' = [op |-> "take", res |-> "Ok"]
  /\ UNCHANGED <<UTXOSet, ApplicationMap, TrusteeAddress, notProposal>>

NextProposal ==
  \/ AddUTXO
  \/ SpendUTXO
  \/ CreateProposal
  \/ TakeProposal

ProposalInit == InitProposal /\ InitLedgerState /\ IdleHeader /\ IdleChain

SpecProposal == ProposalInit /\ [][NextProposal]_vars

(***************************************************************************)
(* The header chain with the transaction handler                           *)
(***************************************************************************)

\* The heights a genesis build can give the genesis header.
GenesisHeights == {0, Confirmations}

InitHeader ==
  /\ \E number \in GenesisHeights,
        proposal \in {None, Some([tx |-> "p1", withdrawal_id_list |-> <<1, 2>>])} :
       GenesisHeader(number, proposal)
  /\ ret = [op |-> "none", res |-> "Ok"]

CommitHeader(op, r) ==
  /\ BlockHeaderFor' = r.st.hdr
  /\ BlockHashFor' = r.st.hashfor
  /\ BestIndex' = r.st.best
  /\ TxFor' = r.st.tx
  /\ InputAddrFor' = r.st.inaddr
  /\ PendingDepositMap' = r.st.pending
  /\ CurrentWithdrawalProposal' = r.st.proposal
  /\ Switch' = r.st.switch
  /\ AddressMap' = r.st.binding
  /\ Records' = r.st.records
  /\ handled' = r.st.handled
  /\ ret' = [op |-> op, res |-> r.res]
  /\ UNCHANGED notHeader

PushHeader ==
  \E h \in Headers, overflow_checks \in BOOLEAN :
    CommitHeader("push_header",
                 apply_push_header([XBridge EXCEPT !.handled = <<>>], BlockHeader(h),
                                   overflow_checks))

PushTransaction ==
  \E tx \in RelayTx :
    CommitHeader("push_transaction",
                 apply_push_transaction([XBridge EXCEPT !.handled = <<>>], tx))

NextHeader ==
  \/ PushHeader
  \/ PushTransaction

HeaderInit == InitHeader /\ InitLedgerState /\ IdleProposal /\ IdleChain

SpecHeader == HeaderInit /\ [][NextHeader]_vars

(***************************************************************************)
(* The legacy header chain with its transaction storage                    *)
(***************************************************************************)

\* The rollback_best calls a behaviour makes.
MaxRollback == 1

LegacyAddresses == {"addr1", "recv"}

\* The legacy chain as its genesis build leaves it: the genesis header is
\* block 0 of the main chain; the receive address may not be set yet.
InitChain ==
  /\ BlockHeaderFor =
       [h \in HashSpace |->
          IF h = GenesisHash THEN Some([header |-> BlockHeader(h)]) ELSE None]
  /\ BestIndex = [hash |-> GenesisHash, number |-> 0]
  /\ NumberForHash = [h \in HashSpace |-> IF h = GenesisHash THEN Some(0) ELSE None]
  /\ HashsForNumber = [n \in Heights |-> IF n = 0 THEN <<GenesisHash>> ELSE <<>>]
  /\ BlockTxids = [h \in HashSpace |-> <<>>]
  /\ TxSet = [t \in LegacyTxIds |-> None]
  /\ DepositCache = None
  /\ ReceiveAddress \in {None, Some("recv")}
  /\ UTXOSet = <<>>
  /\ TxProposal = None
  /\ AddressMap = [a \in LegacyAddresses |-> None]
  /\ Records = [balance |-> [a \in Accounts |-> 0], finished |-> {}, wcache |-> <<>>]
  /\ excursion = None
  /\ rollbacks = 0
  /\ ApplicationMap = Applications
  /\ TrusteeAddress = None
  /\ BlockHashFor = [n \in Heights |-> <<>>]
  /\ TxFor = [t \in TxIds |-> None]
  /\ InputAddrFor = [t \in TxIds |-> None]
  /\ PendingDepositMap = [a \in Addresses |-> None]
  /\ CurrentWithdrawalProposal = None
  /\ Switch = FALSE
  /\ handled = <<>>
  /\ ret = [op |-> "none", res |-> "Ok"]

\* A call that panics is an aborted extrinsic: nothing it wrote is kept.
CommitChain(op, r) ==
  \E st \in {IF r.res = "panic" THEN Legacy ELSE r.st} :
     /\ BlockHeaderFor' = st.hdr
     /\ BestIndex' = st.best
     /\ NumberForHash' = st.num
     /\ HashsForNumber' = st.hashs
     /\ BlockTxids' = st.blocktx
     /\ TxSet' = st.txset
     /\ UTXOSet' = st.utxo
     /\ DepositCache' = st.cache
     /\ TxProposal' = st.proposal
     /\ AddressMap' = st.addrmap
     /\ Records' = st.records
     /\ ret' = [op |-> op, res |-> r.res]
     /\ UNCHANGED <<ReceiveAddress, ledgerVars, ApplicationMap, TrusteeAddress, BlockHashFor,
                    TxFor, InputAddrFor, PendingDepositMap, CurrentWithdrawalProposal,
                    Switch, handled>>

\* The main-chain blocks a call took off the main chain.
Decanonized(st) == {h \in HashSpace : NumberForHash[h] # None /\ st.num[h] = None}

\* A reorganization is shallow when every block it takes off the main chain
\* is still short of IrrBlock confirmations.
Shallow(st) == \A h \in Decanonized(st) : BestIndex.number <= NumberForHash[h][1] + IrrBlock

\* excursion remembers the storage a first shallow reorganization started
\* from, until a relayed transaction or a rollback changes what is compared.
ProcessHeader ==
  \E h \in LegacyHeaders :
    \E r \in {process_header(Legacy, BlockHeader(h))} :
      \E forked \in {r.res = "Ok" /\ Decanonized(r.st) # {}} :
        /\ CommitChain("process_header", r)
        /\ excursion' = IF ~forked THEN excursion
                        ELSE IF ~Shallow(r.st) THEN None
                        ELSE IF excursion = None THEN Some(Legacy)
                        ELSE excursion
        /\ UNCHANGED rollbacks

ProcessTx ==
  \E tx \in LegacyRelayTx :
    \E r \in {process_tx(Legacy, tx)} :
      /\ CommitChain("process_tx", r)
      /\ excursion' = IF r.res = "Ok" THEN None ELSE excursion
      /\ UNCHANGED rollbacks

\* Chain::rollback_best
RollbackBest ==
  /\ rollbacks < MaxRollback
  /\ \E r \in {decanonize(Legacy)} : CommitChain("rollback_best", r)
  /\ excursion' = None
  /\ rollbacks' = rollbacks + 1

\* finacial_recordes: an account applies to withdraw one unit of its
\* balance; the application waits in the withdraw cache.
ApplyWithdrawal ==
  \E who \in Accounts :
    /\ Records.balance[who] >= 1
    /\ \A i \in 1..Len(Records.wcache) : Records.wcache[i].account_id # who
    /\ Records' = [Records EXCEPT !.balance[who] = @ - 1,
                                  !.wcache = Append(@, [account_id |-> who, balance |-> 1])]
    /\ ret' = [op |-> "withdrawal", res |-> "Ok"]
    /\ excursion' = None
    /\ UNCHANGED <<ledgerVars, proposalVars, BlockHeaderFor, BlockHashFor, BestIndex, TxFor,
                   InputAddrFor, PendingDepositMap, CurrentWithdrawalProposal, Switch,
                   AddressMap, handled, NumberForHash, HashsForNumber, BlockTxids, TxSet,
                   DepositCache, ReceiveAddress, rollbacks>>

\* The candidate transaction is built for the waiting withdrawals.
Propose ==
  /\ Records.wcache # <<>>
  /\ \E st \in {legacy_create_proposal(Legacy, address_vec_of(Legacy), BtcFee)} :
       CommitChain("create_proposal", Outcome("Ok", st))
  /\ UNCHANGED <<excursion, rollbacks>>

NextChain ==
  \/ ProcessHeader
  \/ ProcessTx
  \/ RollbackBest
  \/ ApplyWithdrawal
  \/ Propose

ChainInit == InitChain /\ InitLedgerState

SpecChain == ChainInit /\ [][NextChain]_vars

(***************************************************************************)
(* Claims about the ledger, checked under SpecLedger                        *)
(***************************************************************************)

SumOver(token, type_) ==
  LET m == [a \in Accounts |-> AssetBalance[<<a, token>>][type_]]
  IN SumTypes(m, Accounts)

balanceVars == <<AssetBalance, TotalAssetBalance, FreeBalance, TotalIssuance>>

\* C1: for every registered non-native token and every asset type, the
\* per-type total equals the sum of the accounts' balances of that type.
C1_Conservation ==
  \A token \in LedgerTokens, type_ \in AssetType :
    AssetInfo[token] # "none" => TotalAssetBalance[token][type_] = SumOver(token, type_)

InRange ==
  /\ \A k \in Accounts \X Tokens, type_ \in AssetType : AssetBalance[k][type_] \in Balances
  /\ \A token \in Tokens, type_ \in AssetType : TotalAssetBalance[token][type_] \in Balances
  /\ \A a \in Accounts : FreeBalance[a] \in Balances

\* C2: a move_balance that returns an error changes no per-account balance
\* and no per-type total, and a move_balance never leaves a balance outside
\* the range of the machine integer.
C2_MoveAllOrNothing ==
  [][ret'.op = "move_balance" =>
       /\ ret'.res # "Ok" => UNCHANGED <<balanceVars, AssetInfo>>
       /\ InRange']_vars

\* C2 witness: a move failed at the total-side check.
C2_Witness == ret.op = "move_balance" /\ ret.res = "TotalAssetOverFlow"

\* C3: issue and destroy are atomic: on an error nothing changed; on success
\* exactly the account's Free (issue) or ReservedWithdrawal (destroy) balance
\* and the matching total changed, both by the same value.
C3_IssueDestroyAtomic ==
  [][ret'.op \in {"issue", "destroy"} =>
       IF ret'.res # "Ok"
       THEN UNCHANGED <<balanceVars, AssetInfo>>
       ELSE \E token \in LedgerTokens, who \in Accounts, value \in Balances :
              LET type_ == IF ret'.op = "issue" THEN "Free" ELSE "ReservedWithdrawal"
                  d == IF ret'.op = "issue" THEN value ELSE 0 - value
              IN /\ AssetBalance' = [AssetBalance EXCEPT ![<<who, token>>][type_] = @ + d]
                 /\ TotalAssetBalance' = [TotalAssetBalance EXCEPT ![token][type_] = @ + d]
                 /\ UNCHANGED <<FreeBalance, TotalIssuance, AssetInfo>>]_vars

\* The balances of a token as the accessors read them.
BalancesOf(s, token) ==
  [t \in AssetType |->
     [total |-> total_asset_balance(s, token, t),
      of |-> [who \in Accounts |-> asset_balance(s, who, token, t)]]]

\* C25: revoke_asset(T) keeps AssetInfo[T] with its valid flag false and
\* every balance of T as it reads; on a revoked T every issue, destroy and
\* value-changing move_balance fails and changes nothing, a further revoke
\* leaves it revoked, and register_asset for a recorded T fails.
C25_SoftDelete ==
  \A token \in Tokens :
    /\ AssetInfo[token] # "none" =>
         /\ \E r \in {revoke_asset(Ledger, token)} :
              /\ r.st.info[token] = "revoked"
              /\ BalancesOf(r.st, token) = BalancesOf(Ledger, token)
         /\ \A is_online \in BOOLEAN, free \in Balances :
              \E r \in {register_asset(Ledger, token, is_online, free)} :
                r.res # "Ok" /\ r.st = Ledger
    /\ AssetInfo[token] = "revoked" =>
         /\ \A who \in Accounts, value \in Balances :
              /\ \A hook_ok \in BOOLEAN :
                   \E r \in {issue(Ledger, token, who, value, hook_ok)} :
                     r.res # "Ok" /\ r.st = Ledger
              /\ \E r \in {destroy(Ledger, token, who, value)} :
                   r.res # "Ok" /\ r.st = Ledger
         /\ \A from \in Accounts, to \in Accounts, from_type \in AssetType,
               to_type \in AssetType, value \in 1..MaxBalance :
              (from # to \/ from_type # to_type) =>
                \E r \in {move_balance(Ledger, token, from, from_type, to, to_type, value)} :
                  r.res # "Ok" /\ r.st = Ledger

RECURSIVE SumFree(_, _)
SumFree(free, whos) ==
  IF whos = {} THEN 0
  ELSE LET who == CHOOSE x \in whos : TRUE IN free[who] + SumFree(free, whos \ {who})

\* C26: the native Free balance lives in the system balance only, never in
\* AssetBalance or TotalAssetBalance, and after any sequence of issue,
\* move_balance and set_balance_by_root on the native token
\* total_asset_balance(native, Free) is TotalIssuance less the totals of the
\* other types and equals the sum of the accounts' native free balances.
C26_NativeAliasing ==
  /\ \A who \in Accounts :
       /\ AssetBalance[<<who, PCX>>]["Free"] = 0
       /\ asset_balance(Ledger, who, PCX, "Free") = FreeBalance[who]
  /\ TotalAssetBalance[PCX]["Free"] = 0
  /\ total_asset_balance(Ledger, PCX, "Free")
       = TotalIssuance - SumTypes(TotalAssetBalance[PCX], AssetType \ {"Free"})
  /\ total_asset_balance(Ledger, PCX, "Free") = SumFree(FreeBalance, Accounts)

\* C27: move_balance with the same account and type on both sides, or with
\* value 0, returns success, writes no storage and deposits no event,
\* whatever the balances and whatever the state of the token.
C27_TrivialMoveNoOp ==
  \A token \in Tokens, from \in Accounts, to \in Accounts,
     from_type \in AssetType, to_type \in AssetType, value \in Balances :
    ((from = to /\ from_type = to_type) \/ value = 0) =>
      /\ \E r \in {move_balance(Ledger, token, from, from_type, to, to_type, value)} :
           r.res = "Ok" /\ r.st = Ledger
      /\ ~move_deposits_event(Ledger, token, from, from_type, to, to_type, value, TRUE)

\* C27 witness: a move has returned success on a revoked token that has a
\* balance, which only a trivial move does.
C27_Witness ==
  /\ ret.op = "move_balance"
  /\ ret.res = "Ok"
  /\ AssetInfo[XBTC] = "revoked"
  /\ \E who \in Accounts : AssetBalance[<<who, XBTC>>]["Free"] > 0

\* The four balances the scenario reads: the account's and the token's
\* Free and ReservedWithdrawal.
Reads(s, who, token) ==
  <<asset_balance(s, who, token, "Free"),
    asset_balance(s, who, token, "ReservedWithdrawal"),
    total_asset_balance(s, token, "Free"),
    total_asset_balance(s, token, "ReservedWithdrawal")>>

\* A non-native token as register_asset with no initial free total leaves it.
Fresh(token) ==
  /\ AssetInfo[token] = "valid"
  /\ \A t \in AssetType :
       /\ TotalAssetBalance[token][t] = 0
       /\ \A who \in Accounts : AssetBalance[<<who, token>>][t] = 0

\* C34: on a freshly registered non-native token, issue(A, v) gives A Free v
\* and total Free v; a move of m from A's Free to A's ReservedWithdrawal
\* gives Free v - m, ReservedWithdrawal m and the same two totals; destroy(A,
\* m) then gives Free v - m, ReservedWithdrawal 0 and the same two totals
\* (the scenario with v = 1000 and m = 400, at the model's scale).
C34_LedgerScenario ==
  \A A \in Accounts, v \in 1..MaxBalance, m \in 1..MaxBalance :
    (Fresh(XBTC) /\ m <= v) =>
      \E r1 \in {issue(Ledger, XBTC, A, v, TRUE)} :
        \E r2 \in {move_balance(r1.st, XBTC, A, "Free", A, "ReservedWithdrawal", m)} :
          \E r3 \in {destroy(r2.st, XBTC, A, m)} :
            /\ r1.res = "Ok" /\ Reads(r1.st, A, XBTC) = <<v, 0, v, 0>>
            /\ r2.res = "Ok" /\ Reads(r2.st, A, XBTC) = <<v - m, m, v - m, m>>
            /\ r3.res = "Ok" /\ Reads(r3.st, A, XBTC) = <<v - m, 0, v - m, 0>>

\* C34 witness: the scenario has run to its end with v = 2 and m = 1.
C34_Witness ==
  /\ ret.op = "destroy"
  /\ ret.res = "Ok"
  /\ Reads(Ledger, "a1", XBTC) = <<1, 0, 1, 0>>
  /\ Reads(Ledger, "a2", XBTC) = <<0, 0, 1, 0>>

\* C35: whenever set_balance_by_root returns an error, the ledger is as it
\* was before the call: no balance of the account, no total of the token
\* and not TotalIssuance has been written by it.
C35_SetBalanceAllOrNothing ==
  \A token \in LedgerTokens, who \in Accounts, balances \in BalanceMaps :
    \E r \in {set_balance_by_root(Ledger, who, token, balances)} :
      r.res # "Ok" => r.st = Ledger

(***************************************************************************)
(* Claims about the withdrawal proposal, checked under SpecProposal         *)
(***************************************************************************)

\* C4: a create_proposal call made while a proposal is stored returns an
\* error and leaves the stored proposal as it was.
C4_ProposalExclusive ==
  [][(ret'.op = "create_proposal" /\ TxProposal # None) =>
       (ret'.res # "Ok" /\ TxProposal' = TxProposal)]_vars

\* The targets select_utxo is asked for: up to one more than all tracked
\* UTXOs can hold.
Targets == 0..(2 * MaxUTXO + 1)

\* The unspent entries of the set, the most recently added first.
RECURSIVE UnspentDown(_)
UnspentDown(set) ==
  IF set = <<>> THEN <<>>
  ELSE LET last == set[Len(set)]
           rest == UnspentDown(SubSeq(set, 1, Len(set) - 1))
       IN IF last.is_spent THEN rest ELSE <<last>> \o rest

\* C21: select_utxo returns the unspent entries from the most recently added
\* one down to the first at which their cumulative balance reaches the
\* target; it returns None exactly when the balance of all unspent entries
\* is below the target, never returns a spent entry, and is a function of
\* the stored set.
C21_SelectUtxo ==
  \A target \in Targets :
    LET sel == select_utxo(UTXOSet, target)
        down == UnspentDown(UTXOSet)
    IN /\ (sel = None) <=> (SumBalance(down) < target)
       /\ sel # None =>
            LET got == sel[1]
                n == Len(got)
            IN /\ n >= 1
               /\ got = SubSeq(down, 1, n)
               /\ SumBalance(got) >= target
               /\ SumBalance(SubSeq(got, 1, n - 1)) < target \/ n = 1
               /\ \A i \in 1..n : ~got[i].is_spent

\* What a call of create_proposal with these ids meets: an id without a
\* record, a record whose address does not parse, the balance asked for.
NoRecord(indexs) == \E i \in 1..Len(indexs) : ApplicationMap[indexs[i]] = None

BadAddress(indexs) ==
  \E i \in 1..Len(indexs) :
    ApplicationMap[indexs[i]] # None /\ ~ApplicationMap[indexs[i]][1].addr_ok

RECURSIVE Requested(_)
Requested(indexs) ==
  IF indexs = <<>> THEN 0
  ELSE ApplicationMap[indexs[1]][1].balance + Requested(Tail(indexs))

\* The selection cannot cover the balance asked for.
Uncovered(indexs) ==
  LET down == UnspentDown(UTXOSet)
  IN down = <<>> \/ SumBalance(down) < Requested(indexs)

\* The selected inputs exceed the balance asked for and the fee.
ChangeDue(indexs, fee) ==
  SumBalance(select_utxo(UTXOSet, Requested(indexs))[1]) > Requested(indexs) + fee

RECURSIVE ApplicationOutputs(_, _)
ApplicationOutputs(indexs, fee) ==
  IF indexs = <<>> THEN <<>>
  ELSE LET a == ApplicationMap[indexs[1]][1]
       IN (IF a.balance > fee THEN <<[value |-> a.balance - fee, to |-> a.addr]>> ELSE <<>>)
            \o ApplicationOutputs(Tail(indexs), fee)

\* The balance of the tracked UTXOs the inputs spend.
RECURSIVE InputTotal(_)
InputTotal(inputs) ==
  IF inputs = <<>> THEN 0
  ELSE LET u == CHOOSE j \in 1..Len(UTXOSet) : OutPointOf(UTXOSet[j]) = inputs[1]
       IN UTXOSet[u].balance + InputTotal(Tail(inputs))

\* C23: a successful create_proposal builds one output of value b - f for
\* each application with balance b above the fee f and none for the others,
\* followed by a change output to the trustee address of value
\* input_total - sum of the balances - f exactly when that value is
\* positive; every output value is positive, so no subtraction underflowed.
C23_ProposalAmounts ==
  \A indexs \in IdLists, fee \in Fees :
    \E r \in {create_proposal(Bridge, indexs, fee)} :
       r.res = "Ok" =>
         \E tx \in {r.st.proposal[1].tx} :
          \E change \in {InputTotal(tx.inputs) - Requested(indexs) - fee} :
            /\ tx.outputs =
                 ApplicationOutputs(indexs, fee)
                   \o (IF change > 0
                       THEN <<[value |-> change, to |-> TrusteeAddress[1]]>>
                       ELSE <<>>)
            /\ \A i \in 1..Len(tx.outputs) : tx.outputs[i].value >= 1
            /\ r.st.proposal[1].outs = indexs

\* C23 witness: a stored proposal pays an application and returns change to
\* the trustee address.
C23_Witness ==
  /\ ret.op = "create_proposal"
  /\ ret.res = "Ok"
  /\ TxProposal # None
  /\ \E i, j \in 1..Len(TxProposal[1].tx.outputs) :
       /\ i < j
       /\ TxProposal[1].tx.outputs[i].to = "b1"
       /\ TxProposal[1].tx.outputs[j].to = "trustee"

\* The outpoints a relayed input can name: those of the tracked UTXOs and
\* one of no tracked UTXO.
OutPoints == {[hash |-> UtxoTxid(i), index |-> 0] : i \in 1..(MaxUTXO + 1)}

OutPointLists ==
  {<<>>} \cup {<<p>> : p \in OutPoints} \cup {<<p, q>> : p \in OutPoints, q \in OutPoints}

\* The entry at position j is named by one of the outpoints.
Named(set, out_point_set, j) ==
  \E k \in 1..Len(out_point_set) :
    /\ out_point_set[k].hash = set[j].txid
    /\ out_point_set[k].index = set[j].index

\* C24: update_from_outpoint applied twice gives the UTXO set it gives
\* applied once; it changes nothing but the is_spent flag of entries a given
\* outpoint names; marking spent and then unspent leaves the named entries
\* unspent and every other entry as it was.
C24_MarkIdempotent ==
  \A out_point_set \in OutPointLists :
    /\ \A is_spent \in BOOLEAN :
         \E once \in {update_from_outpoint(UTXOSet, out_point_set, is_spent)} :
            /\ update_from_outpoint(once, out_point_set, is_spent) = once
            /\ Len(once) = Len(UTXOSet)
            /\ \A j \in 1..Len(UTXOSet) :
                 /\ once[j] = [UTXOSet[j] EXCEPT !.is_spent = once[j].is_spent]
                 /\ once[j] # UTXOSet[j] => Named(UTXOSet, out_point_set, j)
                 /\ Named(UTXOSet, out_point_set, j) => once[j].is_spent = is_spent
    /\ \E back \in {update_from_outpoint(
                       update_from_outpoint(UTXOSet, out_point_set, TRUE),
                       out_point_set, FALSE)} :
          /\ Len(back) = Len(UTXOSet)
          /\ \A j \in 1..Len(UTXOSet) :
               IF Named(UTXOSet, out_point_set, j)
               THEN back[j] = [UTXOSet[j] EXCEPT !.is_spent = FALSE]
               ELSE back[j] = UTXOSet[j]

\* C24 witness: an input has marked one tracked UTXO spent and another is
\* still unspent.
C24_Witness ==
  /\ ret.op = "update_from_outpoint"
  /\ \E i, j \in 1..Len(UTXOSet) : UTXOSet[i].is_spent /\ ~UTXOSet[j].is_spent

\* The requested applications whose balance does not exceed the fee.
Unpaid(indexs, fee) ==
  {i \in 1..Len(indexs) : ApplicationMap[indexs[i]][1].balance <= fee}

\* C40: a successful create_proposal stores the requested ids as its id
\* list, in request order, the ids of the applications it built no output for
\* among them, and its inputs are the UTXOs select_utxo returns for the sum
\* of the balances of all requested applications.
C40_IdListCoversRequest ==
  \A indexs \in IdLists, fee \in Fees :
    \E r \in {create_proposal(Bridge, indexs, fee)} :
      r.res = "Ok" =>
        \E p \in {r.st.proposal[1]} :
          /\ Len(p.outs) = Len(indexs)
          /\ \A i \in 1..Len(indexs) : p.outs[i] = indexs[i]
          /\ \A i \in Unpaid(indexs, fee) :
               /\ p.outs[i] = indexs[i]
               /\ (\A j \in 1..Len(indexs) : indexs[j] = indexs[i] => j \in Unpaid(indexs, fee)) =>
                    \A k \in 1..Len(p.tx.outputs) :
                      p.tx.outputs[k].to # ApplicationMap[indexs[i]][1].addr
          /\ \E sel \in {select_utxo(UTXOSet, Requested(indexs))} :
               /\ sel # None
               /\ p.tx.inputs = [k \in 1..Len(sel[1]) |-> OutPointOf(sel[1][k])]

\* C40 witness: the stored proposal lists applications 1 and 2 and pays
\* application 1 only, the balance of application 2 not exceeding the fee;
\* its inputs cover both balances.
C40_Witness ==
  /\ ret.op = "create_proposal"
  /\ ret.res = "Ok"
  /\ TxProposal # None
  /\ TxProposal[1].outs = <<1, 2>>
  /\ \A k \in 1..Len(TxProposal[1].tx.outputs) : TxProposal[1].tx.outputs[k].to # "b2"
  /\ \E k \in 1..Len(TxProposal[1].tx.outputs) : TxProposal[1].tx.outputs[k].to = "b1"
  /\ InputTotal(TxProposal[1].tx.inputs) >= 3

(***************************************************************************)
(* Claims about the header chain, checked under SpecHeader                  *)
(***************************************************************************)

\* C5: whatever headers and transactions are relayed, the amount of a
\* deposit transaction is handed to the ledger at most once.
C5_DepositOnce == \A t \in TxIds : Records.credited[t] <= 1

\* The hash reached from h by n parent links.
RECURSIVE Ancestor(_, _)
Ancestor(h, n) == IF n = 0 THEN h ELSE Ancestor(PrevHash(h), n - 1)

IsConfirmed(hdr, h) == hdr[h] # None /\ hdr[h][1].confirmed

RECURSIVE SumPending(_)
SumPending(list) == IF list = <<>> THEN 0 ELSE list[1].balance + SumPending(Tail(list))

\* How often a transaction is in a list of pending deposits.
TimesPending(list, t) == Cardinality({i \in 1..Len(list) : list[i].txid = t})

\* C16: handling a stored deposit transaction with a positive amount and no
\* binding, from an address without a bound account, credits nothing and
\* leaves (txid, amount) once in PendingDepositMap[address]; handling one
\* that carries a binding credits every amount pending for its address to
\* the bound account, each once, removes the PendingDepositMap entry, and
\* handling it again credits none of those amounts again.
C16_PendingDepositCache ==
  \A t \in TxIds :
    (TxFor[t] # None /\ InputAddrFor[t] # None /\ TxFor[t][1].tx_type = "Deposit") =>
      LET raw == Transactions[t]
          addr == InputAddrFor[t][1]
          r == deposit(XBridge, t)
          cached == IF PendingDepositMap[addr] = None THEN <<>>
                    ELSE PendingDepositMap[addr][1]
          own == IF raw.deposit_balance > 0 THEN 1 ELSE 0
      IN /\ (raw.deposit_balance > 0 /\ raw.account_info = None /\ AddressMap[addr] = None) =>
              /\ r.res = "Ok"
              /\ r.st.records = Records
              /\ r.st.pending[addr] # None
              /\ TimesPending(r.st.pending[addr][1], t) = 1
              /\ [txid |-> t, balance |-> raw.deposit_balance] \in Range(r.st.pending[addr][1])
              /\ \A a \in Addresses \ {addr} : r.st.pending[a] = PendingDepositMap[a]
         /\ raw.account_info # None =>
              LET who == raw.account_info[1]
                  again == deposit(r.st, t)
              IN /\ r.res = "Ok"
                 /\ r.st.pending[addr] = None
                 /\ r.st.binding[addr] = Some(who)
                 /\ \A a \in Accounts :
                      r.st.records.balance[a] =
                        Records.balance[a]
                          + (IF a = who THEN SumPending(cached) + raw.deposit_balance ELSE 0)
                 /\ \A x \in TxIds :
                      /\ TimesPending(cached, x) <= 1
                      /\ r.st.records.credited[x] =
                           Records.credited[x] + TimesPending(cached, x)
                             + (IF x = t THEN own ELSE 0)
                      /\ again.st.records.credited[x] =
                           r.st.records.credited[x] + (IF x = t THEN own ELSE 0)

\* C16 witness: the block of the binding transaction d2 was just confirmed;
\* the one credit of d1 came from the record pending for addr1.
C16_Witness ==
  /\ ret.op = "push_header"
  /\ \E i \in 1..Len(handled) : handled[i].txid = "d2" /\ handled[i].res = "Ok"
  /\ Records.credited["d2"] = 1
  /\ Records.credited["d1"] = 1
  /\ Records.balance["a1"] = 2
  /\ PendingDepositMap["addr1"] = None
  /\ AddressMap["addr1"] = Some("a1")

\* The stored Withdrawal-type transactions.
StoredWithdrawals == {t \in TxIds : TxFor[t] # None /\ TxFor[t][1].tx_type = "Withdrawal"}

\* C17: handling a stored Withdrawal-type transaction that is identical to
\* the transaction of the stored proposal succeeds, hands every id of the
\* proposal's withdrawal_id_list to withdrawal_finish and leaves the
\* proposal slot empty; no fatal error is recorded and the switch is as it
\* was.
C17_WithdrawalMatch ==
  \A t \in StoredWithdrawals :
    (/\ CurrentWithdrawalProposal # None
     /\ ensure_identical(TxFor[t][1].raw_tx, CurrentWithdrawalProposal[1].tx)) =>
      LET proposal == CurrentWithdrawalProposal[1]
          r == handle_tx(XBridge, t)
      IN /\ r = withdraw(XBridge, t)
         /\ r.res = "Ok"
         /\ r.st.proposal = None
         /\ \A i \in 1..Len(proposal.withdrawal_id_list) :
              proposal.withdrawal_id_list[i] \in r.st.records.finished
         /\ r.st.records.finished = Records.finished \cup Range(proposal.withdrawal_id_list)
         /\ r.st.records.fatal = Records.fatal
         /\ r.st.switch = Switch

\* C17 witness: a confirmed block held the withdrawal w1 of the proposal.
C17_Witness ==
  /\ ret.op = "push_header"
  /\ \E i \in 1..Len(handled) : handled[i].txid = "w1" /\ handled[i].res = "Ok"
  /\ CurrentWithdrawalProposal = None
  /\ Records.finished = {1, 2}
  /\ Records.fatal = {}

\* C18: handling a stored Withdrawal-type transaction that differs from the
\* transaction of the stored proposal returns an error, leaves the proposal
\* as it was, finishes no application, records a WithdrawalFatalErr for the
\* transaction and sets the withdrawal switch of xbtc.
C18_WithdrawalMismatch ==
  \A t \in StoredWithdrawals :
    (/\ CurrentWithdrawalProposal # None
     /\ ~ensure_identical(TxFor[t][1].raw_tx, CurrentWithdrawalProposal[1].tx)) =>
      LET r == handle_tx(XBridge, t)
      IN /\ r = withdraw(XBridge, t)
         /\ r.res # "Ok"
         /\ r.st.proposal = CurrentWithdrawalProposal
         /\ r.st.records.finished = Records.finished
         /\ t \in r.st.records.fatal
         /\ r.st.switch = TRUE

\* C18 witness: a confirmed block held the withdrawal w2 while the proposal
\* for another transaction was stored.
C18_Witness ==
  /\ ret.op = "push_header"
  /\ \E i \in 1..Len(handled) : handled[i].txid = "w2" /\ handled[i].res = "not identical"
  /\ CurrentWithdrawalProposal # None
  /\ Records.finished = {}
  /\ "w2" \in Records.fatal
  /\ Switch

\* The storage with an accepted header stored, as remove_unused_headers
\* finds it.
Stored(s, info) ==
  [s EXCEPT !.hashfor[info.height] =
              IF info.header.hash \in Range(@) THEN @ ELSE Append(@, info.header.hash),
            !.hdr[info.header.hash] = Some(info)]

C30_DeepForkByHeight ==
  \A h \in Headers, overflow_checks \in BOOLEAN :
    (BlockHeaderFor[PrevHash(h)] # None /\ BlockHeaderFor[BestIndex] # None) =>
      \E c \in {check_prev_and_convert(XBridge, BlockHeader(h), overflow_checks)} :
        LET this_height == BlockHeaderFor[PrevHash(h)][1].height + 1
            best_height == BlockHeaderFor[BestIndex][1].height
        IN IF this_height < best_height - Confirmations
           THEN c.err = "AncientFork"
           ELSE /\ c.err = "Ok"
                /\ c.info = [header |-> BlockHeader(h), height |-> this_height,
                             confirmed |-> FALSE, txid_list |-> <<>>]

\* C33: withdrawal_list reports every pending application as Applying when
\* no proposal is stored; with a proposal stored, an application in its id
\* list is Signing while sig_state is Unfinish and Processing when it is
\* Finish, and every other application is Applying.
C33_DerivedWithdrawalState ==
  \A applications \in ApplicationLists, v \in VoteResult :
    \E list \in {withdrawal_list(WithSigState(XBridge, v), applications)} :
      /\ Len(list) = Len(applications)
      /\ \A i \in 1..Len(list) :
           /\ list[i].withdrawal_id = applications[i]
           /\ list[i].state =
                IF CurrentWithdrawalProposal = None THEN "Applying"
                ELSE IF \E k \in 1..Len(CurrentWithdrawalProposal[1].withdrawal_id_list) :
                          CurrentWithdrawalProposal[1].withdrawal_id_list[k] = applications[i]
                THEN (IF v = "Unfinish" THEN "Signing" ELSE "Processing")
                ELSE "Applying"

\* C33 witness: a proposal is stored while the withdrawal equal to it has
\* been relayed into the best block.
C33_Witness ==
  /\ CurrentWithdrawalProposal # None
  /\ ret.op = "push_transaction"
  /\ ret.res = "Ok"
  /\ proposal_tx_hash(XBridge, BestIndex, Confirmations - 1, <<>>) = <<"w1">>

\* C37: the withdrawal-disabled switch is latched: no header insertion and
\* no relayed transaction, with all the confirmations, deposits and
\* withdrawals they handle, takes the xbtc switch from true back to false.
C37_SwitchLatched == [][Switch => Switch']_vars

\* C37 witness: with the switch set by an earlier step, a header insertion
\* has confirmed a block and handled a withdrawal that matches the proposal,
\* and no fatal one.
C37_Witness ==
  /\ Switch
  /\ ret.op = "push_header"
  /\ ret.res = "Ok"
  /\ \A i \in 1..Len(handled) : handled[i].txid \notin Records.fatal
  /\ \E i \in 1..Len(handled) :
       /\ Transactions[handled[i].txid].tx_type = "Withdrawal"
       /\ handled[i].res = "Ok"

\* C38: handling a stored Withdrawal-type transaction while no proposal is
\* stored succeeds, records a WithdrawalFatalErr for the transaction, sets
\* the withdrawal switch of xbtc, leaves the proposal slot empty and finishes
\* no application; nothing else of the storage changes.
C38_UnsolicitedWithdrawal ==
  \A t \in StoredWithdrawals :
    CurrentWithdrawalProposal = None =>
      \E r \in {handle_tx(XBridge, t)} :
        /\ r.res = "Ok"
        /\ r.st.records.fatal = Records.fatal \cup {t}
        /\ r.st.switch = TRUE
        /\ r.st.proposal = None
        /\ r.st.records.finished = Records.finished
        /\ r.st = [XBridge EXCEPT !.records.fatal = @ \cup {t}, !.switch = TRUE]

\* C38 witness: a confirmed block held a withdrawal while no proposal was
\* stored and none had been: it was handled with success and is recorded as
\* fatal.
C38_Witness ==
  /\ ret.op = "push_header"
  /\ \E i \in 1..Len(handled) :
       /\ Transactions[handled[i].txid].tx_type = "Withdrawal"
       /\ handled[i].res = "Ok"
       /\ handled[i].txid \in Records.fatal
  /\ Switch
  /\ CurrentWithdrawalProposal = None
  /\ Records.finished = {}

\* No two entries of the list are equal.
NoDuplicates(list) == \A i, j \in 1..Len(list) : list[i] = list[j] => i = j

\* C39: no list of PendingDepositMap holds two equal (txid, balance)
\* entries; handling a stored unbound deposit a second time leaves the map as
\* the first handling left it, with one entry for the transaction; and the
\* replay of an address's list at bind time credits each transaction of the
\* list once and no other.
C39_NoDuplicatePending ==
  /\ \A addr \in Addresses :
       PendingDepositMap[addr] # None =>
         /\ NoDuplicates(PendingDepositMap[addr][1])
         /\ \A who \in Accounts :
              \E replay \in {remove_pending_deposit(XBridge, addr, who)} :
                \A x \in TxIds :
                  replay.records.credited[x] =
                    Records.credited[x]
                      + (IF \E i \in 1..Len(PendingDepositMap[addr][1]) :
                              PendingDepositMap[addr][1][i].txid = x
                         THEN 1 ELSE 0)
  /\ \A t \in TxIds :
       (/\ TxFor[t] # None /\ InputAddrFor[t] # None
        /\ TxFor[t][1].tx_type = "Deposit"
        /\ Transactions[t].deposit_balance > 0
        /\ Transactions[t].account_info = None
        /\ AddressMap[InputAddrFor[t][1]] = None) =>
         \E once \in {deposit(XBridge, t)} :
           \E twice \in {deposit(once.st, t)} :
             /\ twice.res = "Ok"
             /\ twice.st.pending = once.st.pending
             /\ NoDuplicates(once.st.pending[InputAddrFor[t][1]][1])
             /\ TimesPending(twice.st.pending[InputAddrFor[t][1]][1], t) = 1

\* C39 witness: the unbound deposit d1 was just handled and is cached once
\* for addr1, and its record is still stored, so that it can be handled
\* again.
C39_Witness ==
  /\ ret.op = "push_header"
  /\ \E i \in 1..Len(handled) : handled[i].txid = "d1" /\ handled[i].res = "Ok"
  /\ PendingDepositMap["addr1"] = Some(<<[txid |-> "d1", balance |-> 1]>>)
  /\ AddressMap["addr1"] = None
  /\ TxFor["d1"] # None

(***************************************************************************)
(* Claims about the legacy header chain, checked under SpecChain           *)
(***************************************************************************)

\* The main-chain hashes above height from up to height to, lowest first.
MainRoute(from, to) ==
  [k \in 1..(to - from) |-> CHOOSE h \in HashSpace : NumberForHash[h] = Some(from + k)]

\* The storage the chain would have, had it been extended from the state
\* before the reorganization straight to the present best header.
Undisturbed ==
  fork_canonize([excursion[1] EXCEPT !.hdr = BlockHeaderFor],
                MainRoute(excursion[1].best.number, BestIndex.number)).st

\* C7: once a shallow reorganization away from a best chain has been
\* followed by a reorganization back to an extension of it, with no
\* transaction relayed in between, the blocks of that chain have the height
\* mapping they had, and the UTXO set and the balances are those of the
\* chain extended without the excursion.
C7_ReorgRoundTrip ==
  (excursion # None /\ NumberForHash[excursion[1].best.hash] # None) =>
    /\ \A h \in HashSpace :
         excursion[1].num[h] # None => NumberForHash[h] = excursion[1].num[h]
    /\ UTXOSet = Undisturbed.utxo
    /\ Records.balance = Undisturbed.records.balance

\* The chain storage a rejected header must leave alone.
ChainState(c) == <<c.best, c.num, c.hashs, c.utxo, c.cache, c.proposal>>

\* C8: whenever insert_best_header returns an error for a header, BestIndex,
\* NumberForHash, HashsForNumber, the UTXO set, the deposit cache and the
\* withdrawal proposal are what they were before the call.
C8_RejectedHeaderNoMutation ==
  \A h \in LegacyHeaders :
    LET r == insert_best_header(StoreHeader(Legacy, BlockHeader(h)), BlockHeader(h))
    IN r.res \notin {"Ok", "panic"} => ChainState(r.st) = ChainState(Legacy)

\* A header has been refused because the rollback inside fork failed: it is
\* stored, off the main chain, and inserting it fails in the first decanonize.
C8_Witness ==
  /\ ret.op = "process_header"
  /\ ret.res = "should set RECEIVE_ADDRESS first"
  /\ \E h \in LegacyHeaders :
       /\ BlockHeaderFor[h] # None
       /\ insert_best_header(Legacy, BlockHeader(h)).res = "should set RECEIVE_ADDRESS first"

C10_BestHeaderStored == BlockHeaderFor[BestIndex.hash] # None

\* The hashes on the parent-link path from h down to the genesis header.
RECURSIVE PathToGenesis(_, _)
PathToGenesis(hdr, h) ==
  IF hdr[h] = None THEN {}
  ELSE {h} \cup PathToGenesis(hdr, hdr[h][1].header.previous_header_hash)

\* C11: when a header's implied height exceeds the best height, the
\* decanonized route is the main chain from just above the common ancestor
\* up to the tip and is unwound from the tip down, the canonized route is
\* the parent-link chain from the ancestor to the header's parent; after the
\* insertion BestIndex is the new header at ancestor + route length + 1 and
\* NumberForHash maps exactly the path from the new tip down to height 0.
C11_ReorgOrder ==
  \A h \in LegacyHeaders :
    LET header == BlockHeader(h)
        c == StoreHeader(Legacy, header)
        o == block_origin(c, header)
    IN (o.res = "Ok" /\ o.kind = "SideChainBecomingCanonChain" /\ ReceiveAddress # None) =>
         LET ancestor == o.origin.ancestor
             up == o.origin.canonized_route
             down == o.origin.decanonized_route
             d == fork_decanonize(c, down)
             r == insert_best_header(c, header)
             path == PathToGenesis(c.hdr, h)
         IN /\ Len(down) = BestIndex.number - ancestor
            /\ \A k \in 1..Len(down) : NumberForHash[down[k]] = Some(ancestor + k)
            /\ d.res = "Ok"
            /\ d.st.best.number = ancestor
            /\ NumberForHash[d.st.best.hash] = Some(ancestor)
            /\ \A k \in 1..Len(up) :
                 c.hdr[up[k]][1].header.previous_header_hash =
                   IF k = 1 THEN d.st.best.hash ELSE up[k - 1]
            /\ header.previous_header_hash =
                 IF up = <<>> THEN d.st.best.hash ELSE up[Len(up)]
            /\ r.res = "Ok"
            /\ r.st.best = [hash |-> h, number |-> ancestor + Len(up) + 1]
            /\ \A x \in HashSpace :
                 r.st.num[x] = IF x \in path
                               THEN Some(Cardinality(PathToGenesis(c.hdr, x)) - 1)
                               ELSE None

\* A reorganization has unwound two main-chain blocks.
C11_Witness ==
  /\ ret.op = "process_header"
  /\ ret.res = "Ok"
  /\ rollbacks = 0
  /\ Cardinality({h \in LegacyHeaders :
                    /\ NumberForHash[h] = None
                    /\ \E n \in Heights : h \in Range(HashsForNumber[n])}) >= 2

\* C12: inserting a header whose previous_header_hash is the best tip hash
\* makes BestIndex the new header at the previous best number + 1 and
\* records the hash in NumberForHash and HashsForNumber at that height.
C12_CanonExtension ==
  \A h \in LegacyHeaders :
    LET header == BlockHeader(h)
        c == StoreHeader(Legacy, header)
        o == block_origin(c, header)
        r == insert_best_header(c, header)
    IN (o.res = "Ok" /\ o.kind = "CanonChain") =>
         /\ header.previous_header_hash = BestIndex.hash
         /\ r.res = "Ok"
         /\ r.st.best = [hash |-> h, number |-> BestIndex.number + 1]
         /\ r.st.num[h] = Some(BestIndex.number + 1)
         /\ h \in Range(r.st.hashs[BestIndex.number + 1])
         /\ \A x \in HashSpace \ {h} : r.st.num[x] = NumberForHash[x]

\* The best chain has been extended twice, and no header is off it.
C12_Witness ==
  /\ ret.op = "process_header"
  /\ ret.res = "Ok"
  /\ BestIndex.number = 2
  /\ rollbacks = 0
  /\ \A h \in LegacyHeaders : BlockHeaderFor[h] # None => NumberForHash[h] # None

\* The number of blocks off the main chain met walking parent links from x,
\* counted up to the fork bound.
RECURSIVE OffMain(_, _)
OffMain(x, fuel) ==
  IF fuel = 0 \/ NumberForHash[x] # None \/ BlockHeaderFor[x] = None THEN 0
  ELSE 1 + OffMain(PrevHash(x), fuel - 1)

\* The first block met on that walk.
RECURSIVE WalkEnd(_, _)
WalkEnd(x, fuel) ==
  IF fuel = 0 \/ NumberForHash[x] # None \/ BlockHeaderFor[x] = None THEN x
  ELSE WalkEnd(PrevHash(x), fuel - 1)

\* A header on a side chain: its parent is stored and is not the tip, and a
\* main-chain ancestor is met within the fork bound.
OnSideChain(h) ==
  /\ BlockHeaderFor[BestIndex.hash] # None
  /\ NumberForHash[h] = None
  /\ PrevHash(h) # BestIndex.hash
  /\ BlockHeaderFor[PrevHash(h)] # None
  /\ NumberForHash[WalkEnd(PrevHash(h), MaxForkRoute - 1)] # None

ImpliedHeight(h) ==
  NumberForHash[WalkEnd(PrevHash(h), MaxForkRoute - 1)][1]
    + OffMain(PrevHash(h), MaxForkRoute - 1) + 1

\* What a side-chain insertion must leave alone.
BestChain(c) == <<c.best, c.num, c.utxo, c.cache, c.proposal, c.records.balance>>

\* C13: inserting a side-chain header whose implied height is not greater
\* than the best height succeeds and leaves BestIndex, NumberForHash, the
\* UTXO set, the deposit cache, the proposal and the balances unchanged.
C13_SideChainNoEffect ==
  \A h \in LegacyHeaders :
    (OnSideChain(h) /\ ImpliedHeight(h) <= BestIndex.number) =>
      LET r == insert_best_header(StoreHeader(Legacy, BlockHeader(h)), BlockHeader(h))
      IN r.res = "Ok" /\ BestChain(r.st) = BestChain(Legacy)

\* One header was stored on a side chain next to a best chain of one block.
C13_Witness ==
  /\ ret.op = "process_header"
  /\ ret.res = "Ok"
  /\ rollbacks = 0
  /\ BestIndex.number = 1
  /\ \E h \in LegacyHeaders :
       /\ BlockHeaderFor[h] # None
       /\ NumberForHash[h] = None
       /\ \A n \in Heights : h \notin Range(HashsForNumber[n])

\* C14: a header that is not known and whose previous_header_hash has no
\* stored header info is answered UnknownParent by block_origin, and its
\* insertion is refused with UnknownParent leaving every storage item as it
\* was, the header itself not stored.
C14_UnknownParentRejected ==
  \A h \in LegacyHeaders :
    (/\ BlockHeaderFor[BestIndex.hash] # None
     /\ BlockHeaderFor[h] = None
     /\ BlockHeaderFor[PrevHash(h)] = None) =>
      /\ block_origin(Legacy, BlockHeader(h)).res = "UnknownParent"
      /\ block_origin(StoreHeader(Legacy, BlockHeader(h)), BlockHeader(h)).res = "UnknownParent"
      /\ process_header(Legacy, BlockHeader(h)) = Outcome("UnknownParent", Legacy)

\* A header without a stored parent was refused on a chain of two blocks.
C14_Witness ==
  /\ ret.op = "process_header"
  /\ ret.res = "UnknownParent"
  /\ BestIndex.number = 2

\* The numbers of parent links from x, below the fork bound, that end at a
\* block with a main-chain number.
MainWithin(x) == {k \in 0..(MaxForkRoute - 1) : NumberForHash[Ancestor(x, k)] # None}

\* C15: for an unknown header whose parent is stored and is not the best
\* tip, block_origin fails with AncientFork exactly when none of the first
\* max_fork_route blocks on the parent walk has a main-chain number;
\* otherwise it succeeds, and with the ancestor at height n met after k
\* side-chain blocks the header's height is n + k + 1.
C15_ForkRouteBound ==
  \A h \in LegacyHeaders :
    LET p == PrevHash(h)
        o == block_origin(StoreHeader(Legacy, BlockHeader(h)), BlockHeader(h))
    IN (/\ BlockHeaderFor[BestIndex.hash] # None
        /\ NumberForHash[h] = None
        /\ p # BestIndex.hash
        /\ BlockHeaderFor[p] # None) =>
         /\ (o.res = "AncientFork") <=> (MainWithin(p) = {})
         /\ MainWithin(p) # {} =>
              LET k == CHOOSE i \in MainWithin(p) : \A j \in MainWithin(p) : i <= j
                  n == NumberForHash[Ancestor(p, k)][1]
              IN /\ o.res = "Ok"
                 /\ o.kind \in {"SideChain", "SideChainBecomingCanonChain"}
                 /\ o.origin.ancestor = n
                 /\ Len(o.origin.canonized_route) = k
                 /\ o.origin.block_number = n + k + 1

C15_Witness ==
  /\ ret.op = "process_header"
  /\ ret.res = "AncientFork"
  /\ \E h \in LegacyHeaders :
       /\ BlockHeaderFor[h] # None
       /\ NumberForHash[h] = None
       /\ NumberForHash[PrevHash(h)] = None
       /\ BlockHeaderFor[PrevHash(h)] # None

\* The relays validate_transaction is asked about: a proof exists only for a
\* block that holds the transaction, but it can come with any block hash,
\* without the transaction among its leaves, or with a wrong previous_raw.
LegacyRelayInputs ==
  {tx \in [block_hash : LegacyHeaders, raw : LegacyTxIds, proof_root : LegacyHeaders,
           in_proof : BOOLEAN, prev_ok : BOOLEAN] :
     tx.proof_root \in LegacyTxs[tx.raw].blocks}

\* C19: validate_transaction of the legacy bridge succeeds exactly when the
\* block hash has a stored header, the proof's root is that header's merkle
\* root, the transaction is among the proof's leaves and previous_raw is the
\* transaction input 0 spends; the first of these that fails gives the
\* error.
C19_RelayValidation ==
  ReceiveAddress # None =>
    \A tx \in LegacyRelayInputs :
      LET v == legacy_validate_transaction(Legacy, tx)
          stored == BlockHeaderFor[tx.block_hash] # None
          root == tx.proof_root = tx.block_hash
      IN /\ (v.res = "Ok") <=> (stored /\ root /\ tx.in_proof /\ tx.prev_ok)
         /\ ~stored =>
              v.res \in {"this tx's block not in the main chain",
                         "not has this block header yet"}
         /\ (stored /\ ~root) => v.res = "check failed for merkle tree proof"
         /\ (stored /\ root /\ ~tx.in_proof) =>
              v.res = "txid should in ParsedPartialMerkleTree"
         /\ (stored /\ root /\ tx.in_proof /\ ~tx.prev_ok) =>
              v.res = "previous tx id not right"

\* Transactions handed to the classification, each with the outputs of the
\* previous_raw relayed with it (the transaction input 0 spends from) and,
\* in spent, the destination of the output each input really spends:
\*   one input from addr1 or from the receive address, paying either;
\*   two inputs from addr1, the second spending output 1 of another
\*   transaction; inputs from addr1 and from the receive address.
ClassifyInputs ==
  {[inputs |-> <<[hash |-> "x1", index |-> 0]>>,
    prev_outputs |-> <<[value |-> 1, to |-> from, null_data |-> None]>>,
    spent |-> <<from>>,
    outputs |-> <<[value |-> 1, to |-> to, null_data |-> None]>>] :
     from \in {"addr1", "recv"}, to \in {"addr1", "recv"}}
  \cup
  {[inputs |-> <<[hash |-> "x1", index |-> 0], [hash |-> "x3", index |-> 1]>>,
    prev_outputs |-> <<[value |-> 1, to |-> "addr1", null_data |-> None]>>,
    spent |-> <<"addr1", "addr1">>,
    outputs |-> <<[value |-> 2, to |-> "recv", null_data |-> None]>>],
   [inputs |-> <<[hash |-> "x1", index |-> 0], [hash |-> "e1", index |-> 0]>>,
    prev_outputs |-> <<[value |-> 1, to |-> "addr1", null_data |-> None]>>,
    spent |-> <<"addr1", "recv">>,
    outputs |-> <<[value |-> 2, to |-> "addr1", null_data |-> None]>>]}

\* C20: a transaction with an input spending an output of the receive
\* address is classified Withdraw, whatever its outputs pay; one without
\* such an input and with an output paying the receive address is
\* classified RegisterDeposit; one with neither is rejected as unrelated.
C20_ClassificationPriority ==
  ReceiveAddress # None =>
    \A raw \in ClassifyInputs :
      LET v == detect_type(raw, ReceiveAddress[1])
          spends == \E i \in 1..Len(raw.spent) : raw.spent[i] = ReceiveAddress[1]
          pays == \E i \in 1..Len(raw.outputs) : is_key(raw.outputs[i], ReceiveAddress[1])
      IN /\ spends => v = [res |-> "Ok", tx_type |-> "Withdraw"]
         /\ (~spends /\ pays) => v = [res |-> "Ok", tx_type |-> "RegisterDeposit"]
         /\ (~spends /\ ~pays) => v.res = "not found our pubkey, may be an unrelated tx"

MappedAt(c, n) == {h \in HashSpace : c.hdr[h] # None /\ c.num[h] = Some(n)}

\* The main chain of c is consistent: the best header is mapped at its
\* number, and every height up to it has one stored header, each the parent
\* of the one above.
MainChainConsistent(c) ==
  /\ c.num[c.best.hash] = Some(c.best.number)
  /\ \A n \in 0..c.best.number :
       /\ Cardinality(MappedAt(c, n)) = 1
       /\ n > 0 =>
            \A h \in MappedAt(c, n) :
              c.hdr[h][1].header.previous_header_hash \in MappedAt(c, n - 1)

\* The storage after k successful decanonize steps, as the first half of a
\* fork() leaves it between two steps; c itself once a step fails.
RECURSIVE Unwound(_, _)
Unwound(c, k) ==
  IF k = 0 THEN c
  ELSE LET d == decanonize(c)
       IN IF d.res = "Ok" THEN Unwound(d.st, k - 1) ELSE c

\* C36: from every storage a reorganization passes through, a single
\* successful decanonize or canonize step leaves NumberForHash[BestIndex.hash]
\* = BestIndex.number and one stored header mapped at every height up to
\* BestIndex.number, each the parent of the one above.
C36_StepConsistent ==
  \A k \in 0..MaxForkRoute :
    \E c \in {Unwound(Legacy, k)} :
      MainChainConsistent(c) =>
        /\ \E d \in {decanonize(c)} : d.res = "Ok" => MainChainConsistent(d.st)
        /\ \A hash \in HashSpace :
             \E r \in {canonize(c, hash)} : r.res = "Ok" => MainChainConsistent(r.st)

(***************************************************************************)
(* Claims about the legacy token ledger, checked under SpecTokens          *)
(***************************************************************************)

RECURSIVE SumTokens(_, _, _)
SumTokens(m, sym, whos) ==
  IF whos = {} THEN 0
  ELSE LET who == CHOOSE x \in whos : TRUE
       IN m[<<who, sym>>] + SumTokens(m, sym, whos \ {who})

\* C31: after any sequence of the ledger's operations, for every non-native
\* symbol TotalFreeToken is the sum of the accounts' FreeToken and
\* TotalReservedToken the sum of the accounts' ReservedToken.
C31_TokenConservation ==
  \A sym \in LegacySymbols :
    /\ TokenBalances.total_free[sym] = SumTokens(TokenBalances.free, sym, Accounts)
    /\ TokenBalances.total_reserved[sym] = SumTokens(TokenBalances.reserved, sym, Accounts)

\* C32: a move_free_token or transfer_token that fails leaves FreeToken of
\* both accounts, the token's totals and TokenListOf of the sender and of
\* the receiver as they were before the call.
C32_TokenRejectsCleanly ==
  \A from \in Accounts, to \in Accounts, sym \in LegacySymbols, value \in Balances,
     ok \in BOOLEAN :
    /\ \E r \in {move_free_token(TokenBalances, from, to, sym, value, ok)} :
         r.res # "Ok" => r.st = TokenBalances
    /\ \E r \in {transfer_token(TokenBalances, from, to, sym, value, ok)} :
         r.res # "Ok" => r.st = TokenBalances

====
